---- MODULE Spec2Model ----
(***************************************************************************)
(* A model of the deterministic conversion engine of vue-sfc-to-tsx:       *)
(*   - the template walker (walkChildren / processElementNode) with the    *)
(*     control-flow reconstructor (processConditionalChain, buildTernary,  *)
(*     processVFor), templateToJsx and ensureValidJsxReturn;               *)
(*   - the setup-script macro extractor (matchBalanced, findMacro,         *)
(*     extractMacros) and the module assembler (fromScriptSetup);          *)
(*   - the identifier rewriter (prefixProps, appendRefValue).              *)
(*   - mergeImports, processDirective with processAllProps, the template   *)
(*     globals (rewriteTemplateGlobals) with the setup signature, and      *)
(*     convert itself with the remote resolver (resolveFallbacks);         *)
(*   - processEvent, parsePropTypes with buildPropsOption, and the command *)
(*     line (convertSingleFile, watchFiles).                               *)
(*                                                                         *)
(* Text is modelled as a sequence of tokens.  JSX output tokens are pairs  *)
(* <<kind, n>>: a literal piece of output text is <<text, 0>>, and the     *)
(* rendering of the n-th sibling (its condition, its element, ...) is      *)
(* <<kind, n>>.  Script and expression text is a sequence of one-token     *)
(* strings drawn from a small alphabet.                                    *)
(***************************************************************************)
EXTENDS Naturals, Integers, Sequences, FiniteSets, TLC

VARIABLES
    children,   \* walker: the sibling list handed to walkChildren (ast.children)
    i,          \* walker: the index cursor of walkChildren (1-based)
    parts,      \* walker: the parts array of walkChildren
    index,      \* walker: the index of the last processElementNode call
    result,     \* walker: the ElementResult of the last processElementNode call
    hasVFor,    \* walker: ctx.hasVFor
    jsxBody,    \* walker: the value returned by templateToJsx
    ret,        \* walker: the expression placed inside `return () => ( ... )`
    scriptKind, \* walker: which script block `parsed` has
    moduleLines,\* walker: `lines`, the lines of the module text
    pc,         \* walker: position of the template conversion
    stmts,      \* script: the statements the setup script is made of
    script,     \* script: scriptContent, the text handed to extractMacros
    removed,    \* script: the positions of scriptContent removed from `s`
    macros,     \* script: result.props / emits / slots / expose / options
    imports,    \* script: result.imports
    rawImports, \* script: result.rawImports
    rawExports, \* script: result.rawExports
    body,       \* script: result.body
    tsx,        \* script: the module text returned by fromScriptSetup
    mpc,        \* script: position of the script conversion
    expression,             \* rewriter: the expression handed to rewriteTemplateGlobals
    refIdentifiers,   \* rewriter: ctx.refIdentifiers, in iteration order
    propIdentifiers,  \* rewriter: ctx.propIdentifiers, in iteration order
    rewritten,        \* rewriter: `result`, the text after the last step
    previous,         \* rewriter: the text the last step was applied to
    rpc,              \* rewriter: position of the rewriting
    existing,         \* imports: the first argument of mergeImports
    additional,       \* imports: the second argument of mergeImports
    map,              \* imports: the Map of mergeImports, in insertion order
    next,             \* imports: how many records the loop has taken
    ipc,              \* imports: position of the merge
    elems,            \* props: the elements of the template, each its directives
    elemIdx,          \* props: the element being rendered
    propIdx,          \* props: the cursor of `for (const prop of node.props)`
    attrs,            \* props: attrResult.attrs
    extraAttrs,       \* props: extraAttrs of processAllProps
    elementAttrs,     \* props: the attributes each rendered element got
    fallbacks,        \* props: ctx.fallbacks
    dpc,              \* props: position of the walk over the elements
    sources,          \* convert: `source`, the component each call converts
    options,          \* convert: `options` of each call
    ctx,              \* convert: the JsxContext of each call
    ran,              \* convert: the stages each call has run, in order
    tsxText,          \* convert: `tsx`, the module text of each call
    requests,         \* convert: the generateText requests each call has sent
    replacements,     \* convert: the Map resolveFallbacks gives each call
    outcome,          \* convert: what the remote step of each call met
    returned,         \* convert: how the promise of each call settled
    cpc,              \* convert: where each call stands
    templateExprs,    \* globals: the expressions of the template, in walk order
    exprAt,           \* globals: the expression rewriteTemplateGlobals is given next
    jsxExprs,         \* globals: what rewriteTemplateGlobals returned for each
    usedContextMembers, \* globals: ctx.usedContextMembers
    warnings,         \* globals: ctx.warnings
    setupSig,         \* globals: the parameters of the generated setup function
    gpc,              \* globals: position of the conversion
    eventDir,         \* events: the DirectiveNode processEvent is given
    eventProp,        \* events: the {name, value} processEvent returns
    epc,              \* events: position of processEvent
    setupDecl,        \* propTypes: the props declaration and imports of the script setup
    propInfos,        \* propTypes: the PropInfo[] parsePropTypes returns
    componentProps,   \* propTypes: the props option of defineComponent
    mergedImports,    \* propTypes: the import records the statements are written from
    tpc,              \* propTypes: position in the assembly of the props
    cliOpts,          \* cli: the CliOptions of the process
    vueFile,          \* cli: content of the .vue file on disk
    tsxFile,          \* cli: the .tsx file on disk
    cssFile,          \* cli: the stylesheet on disk
    runPc,            \* cli: position of each call of convertSingleFile
    runSource,        \* cli: `source` of each call
    runResult,        \* cli: `result` of each call
    runStats,         \* cli: the ConvertStats each call counts in
    runOk,            \* cli: what each call returned
    changes           \* cli: saves of the .vue file seen by the watcher

walkerVars == <<children, i, parts, index, result, hasVFor, jsxBody, ret, scriptKind,
                moduleLines, pc>>
scriptVars == <<stmts, script, removed, macros, imports, rawImports, rawExports, body,
                tsx, mpc>>
rewriterVars == <<expression, refIdentifiers, propIdentifiers, rewritten, previous, rpc>>
importVars == <<existing, additional, map, next, ipc>>
propsVars == <<elems, elemIdx, propIdx, attrs, extraAttrs, elementAttrs, fallbacks, dpc>>
convertVars == <<sources, options, ctx, ran, tsxText, requests, replacements, outcome,
                 returned, cpc>>
globalsVars == <<templateExprs, exprAt, jsxExprs, usedContextMembers, warnings, setupSig, gpc>>
eventsVars == <<eventDir, eventProp, epc>>
propTypesVars == <<setupDecl, propInfos, componentProps, mergedImports, tpc>>
cliVars == <<cliOpts, vueFile, tsxFile, cssFile, runPc, runSource, runResult, runStats,
    runOk, changes>>
vars == <<walkerVars, scriptVars, rewriterVars, importVars, propsVars, convertVars,
    globalsVars, eventsVars, propTypesVars, cliVars>>

\* what the actions of one part leave alone
otherThanWalker == <<scriptVars, rewriterVars, importVars, propsVars, convertVars,
    globalsVars, eventsVars, propTypesVars, cliVars>>
otherThanScript == <<walkerVars, rewriterVars, importVars, propsVars, convertVars,
    globalsVars, eventsVars, propTypesVars, cliVars>>
otherThanRewriter == <<walkerVars, scriptVars, importVars, propsVars, convertVars,
    globalsVars, eventsVars, propTypesVars, cliVars>>
otherThanImports == <<walkerVars, scriptVars, rewriterVars, propsVars, convertVars,
    globalsVars, eventsVars, propTypesVars, cliVars>>
otherThanProps == <<walkerVars, scriptVars, rewriterVars, importVars, convertVars,
    globalsVars, eventsVars, propTypesVars, cliVars>>
otherThanGlobals == <<walkerVars, scriptVars, rewriterVars, importVars, propsVars,
    convertVars, eventsVars, propTypesVars, cliVars>>
otherThanConvert == <<walkerVars, scriptVars, rewriterVars, importVars, propsVars,
    globalsVars, eventsVars, propTypesVars, cliVars>>
otherThanEvents == <<walkerVars, scriptVars, rewriterVars, importVars, propsVars,
    convertVars, globalsVars, propTypesVars, cliVars>>
otherThanPropTypes == <<walkerVars, scriptVars, rewriterVars, importVars, propsVars,
    convertVars, globalsVars, eventsVars, cliVars>>
otherThanCli == <<walkerVars, scriptVars, rewriterVars, importVars, propsVars,
    convertVars, globalsVars, eventsVars, propTypesVars>>

(*************************** bounds ****************************************)
MaxChildren == 3
MaxStmts == 2
MaxExpr == 4
MaxImports == 2
MaxElems == 2
MaxFallbacks == 2
MaxTemplateExprs == 2
MaxEventName == 3
MaxModifiers == 2
MaxMembers == 2
MaxChanges == 2

(*************************** node kinds ************************************)
\* NodeTypes from @vue/compiler-core
ELEMENT == 1
TEXT == 2
COMMENT == 3
INTERPOLATION == 5

\* A template node.  Text content is one of three classes: " " (whitespace
\* only, no newline), "\n" (whitespace only, with a newline), "txt" (has a
\* non-whitespace character).  dirs is the set of control-flow directive
\* names the element carries.
Node(type, tag, dirs, content) ==
    [type |-> type, tag |-> tag, dirs |-> dirs, content |-> content]

TextNodes == { Node(TEXT, "", {}, c) : c \in {" ", "\n", "txt"} }

ElementNodes ==
    { Node(ELEMENT, "div", d, "") :
        d \in { {}, {"if"}, {"else-if"}, {"else"}, {"for"}, {"for", "if"} } }
    \cup { Node(ELEMENT, "div", {"else", "for"}, "") }
    \cup { Node(ELEMENT, "slot", d, "") : d \in { {}, {"if"}, {"for"} } }

NodeKinds ==
    TextNodes \cup ElementNodes
    \cup { Node(INTERPOLATION, "", {}, ""), Node(COMMENT, "", {}, "") }

RECURSIVE SeqsUpTo(_, _)
SeqsUpTo(S, n) ==
    IF n = 0 THEN { <<>> }
    ELSE LET shorter == SeqsUpTo(S, n - 1)
         IN  shorter \cup { Append(s, x) : s \in { t \in shorter : Len(t) = n - 1 }, x \in S }

(*************************** output tokens *********************************)
Tok(k, n) == <<k, n>>
L(s) == <<s, 0>>

NoCondition == Tok("none", 0)   \* condition: null
NoResult == [jsx |-> <<>>, consumed |-> 0]

RECURSIVE Concat(_)
Concat(ss) == IF ss = <<>> THEN <<>> ELSE Head(ss) \o Concat(Tail(ss))

RECURSIVE JoinWith(_, _)
\* Array.prototype.join over token sequences
JoinWith(ss, sep) ==
    IF ss = <<>> THEN <<>>
    ELSE IF Len(ss) = 1 THEN ss[1]
    ELSE ss[1] \o sep \o JoinWith(Tail(ss), sep)

IsSpace(t) == t = L(" ")

RECURSIVE TrimStart(_)
TrimStart(s) == IF s # <<>> /\ IsSpace(Head(s)) THEN TrimStart(Tail(s)) ELSE s

RECURSIVE TrimEnd(_)
TrimEnd(s) ==
    IF s # <<>> /\ IsSpace(s[Len(s)]) THEN TrimEnd(SubSeq(s, 1, Len(s) - 1)) ELSE s

\* String.prototype.trim
Trim(s) == TrimEnd(TrimStart(s))

(*************************** control-flow.ts *******************************)
findDirective(node, name) == node.type = ELEMENT /\ name \in node.dirs

isWhitespaceText(node) == node.type = TEXT /\ node.content \in {" ", "\n"}

\* renderElement(node, ctx): the rendering of sibling n as a plain element
renderElement(n) == <<Tok("el", n)>>

\* rewriteTemplateGlobals(dir.exp.content, ctx): the condition text of sibling n
conditionOf(n) == Tok("cond", n)

RECURSIVE buildParts(_, _)
\* the loop of buildTernary over branches[k..]
buildParts(branches, k) ==
    IF k > Len(branches) THEN <<>>
    ELSE LET b == branches[k]
             part == IF b.condition = NoCondition
                        THEN renderElement(b.node)
                     ELSE IF k = Len(branches)
                        THEN <<b.condition, L("?")>> \o renderElement(b.node)
                             \o <<L(":"), L("null")>>
                     ELSE <<b.condition, L("?")>> \o renderElement(b.node)
         IN  <<part>> \o buildParts(branches, k + 1)

\* buildTernary with the trailing `: null` of the last conditional branch left out
buildTernary_noNull(branches) ==
    IF Len(branches) = 1
    THEN <<branches[1].condition, L("?")>> \o renderElement(branches[1].node)
    ELSE JoinWith([k \in 1..Len(branches) |->
                     IF branches[k].condition = NoCondition
                     THEN renderElement(branches[k].node)
                     ELSE <<branches[k].condition, L("?")>>
                          \o renderElement(branches[k].node)],
                  <<L(":")>>)

buildTernary(branches) ==
    IF Len(branches) = 1
    THEN <<branches[1].condition, L("?")>> \o renderElement(branches[1].node)
         \o <<L(":"), L("null")>>
    ELSE JoinWith(buildParts(branches, 1), <<L(":")>>)

RECURSIVE scanChain(_, _, _, _)
\* the while loop of processConditionalChain, from cursor k
scanChain(siblings, k, branches, consumed) ==
    IF k > Len(siblings) THEN [branches |-> branches, consumed |-> consumed]
    ELSE LET sibling == siblings[k] IN
         IF isWhitespaceText(sibling)
            THEN scanChain(siblings, k + 1, branches, consumed + 1)
         ELSE IF sibling.type # ELEMENT
            THEN [branches |-> branches, consumed |-> consumed]
         ELSE IF findDirective(sibling, "else-if")
            THEN scanChain(siblings, k + 1,
                           Append(branches, [condition |-> conditionOf(k), node |-> k]),
                           consumed + 1)
         ELSE IF findDirective(sibling, "else")
            THEN [branches |-> Append(branches, [condition |-> NoCondition, node |-> k]),
                  consumed |-> consumed + 1]
         ELSE [branches |-> branches, consumed |-> consumed]

\* the chain scan with a consumed count that leaves out the seeding v-if
chainScan_seedUncounted(siblings, startIndex) ==
    scanChain(siblings, startIndex + 1,
              <<[condition |-> conditionOf(startIndex), node |-> startIndex]>>, 0)

\* the branches and the consumed count of the chain seeded at startIndex
chainScan(siblings, startIndex) ==
    scanChain(siblings, startIndex + 1,
              <<[condition |-> conditionOf(startIndex), node |-> startIndex]>>, 1)

processConditionalChain(siblings, startIndex) ==
    LET scan == chainScan(siblings, startIndex)
    IN  [jsx |-> <<L("{")>> \o buildTernary(scan.branches) \o <<L("}")>>,
         consumed |-> scan.consumed]

processVFor(siblings, n) ==
    LET rendered == renderElement(n)
        forBody == IF findDirective(siblings[n], "if")
                   THEN <<conditionOf(n), L("?")>> \o rendered \o <<L(":"), L("null")>>
                   ELSE rendered
    IN  <<L("{_renderList("), Tok("iterable", n), Tok("params", n), L("=>(")>>
        \o forBody \o <<L("))}")>>

(*************************** slots.ts **************************************)
\* processSlot: `{slots.name?.(props)}`
processSlot(n) == <<L("{"), Tok("slot", n), L("}")>>

(*************************** walker.ts *************************************)
\* processElementNode with the v-if check placed before the v-for check
processElementNode_ifFirst(siblings, n) ==
    IF siblings[n].tag = "slot"
       THEN [jsx |-> processSlot(n), consumed |-> 1]
    ELSE IF findDirective(siblings[n], "if")
       THEN processConditionalChain(siblings, n)
    ELSE IF findDirective(siblings[n], "for")
       THEN [jsx |-> processVFor(siblings, n), consumed |-> 1]
    ELSE [jsx |-> renderElement(n), consumed |-> 1]

processElementNode(siblings, n) ==
    IF siblings[n].tag = "slot"
       THEN [jsx |-> processSlot(n), consumed |-> 1]
    ELSE IF findDirective(siblings[n], "for")
       THEN [jsx |-> processVFor(siblings, n), consumed |-> 1]
    ELSE IF findDirective(siblings[n], "if")
       THEN processConditionalChain(siblings, n)
    ELSE [jsx |-> renderElement(n), consumed |-> 1]

\* case 2 of walkChildren
WalkText ==
    /\ pc = "walk" /\ i <= Len(children)
    /\ children[i].type = TEXT
    /\ parts' = IF children[i].content = "txt" THEN Append(parts, <<Tok("text", i)>>)
                ELSE IF children[i].content # "\n" THEN Append(parts, <<L(" ")>>)
                ELSE parts
    /\ i' = i + 1
    /\ UNCHANGED <<children, index, result, hasVFor, jsxBody, ret, pc>>
    /\ UNCHANGED <<scriptKind, moduleLines>>
    /\ UNCHANGED otherThanWalker

\* case 5 of walkChildren
WalkInterpolation ==
    /\ pc = "walk" /\ i <= Len(children)
    /\ children[i].type = INTERPOLATION
    /\ parts' = Append(parts, <<L("{"), Tok("expression", i), L("}")>>)
    /\ i' = i + 1
    /\ UNCHANGED <<children, index, result, hasVFor, jsxBody, ret, pc>>
    /\ UNCHANGED <<scriptKind, moduleLines>>
    /\ UNCHANGED otherThanWalker

\* case 3 of walkChildren
WalkComment ==
    /\ pc = "walk" /\ i <= Len(children)
    /\ children[i].type = COMMENT
    /\ parts' = Append(parts, <<L("{/*"), Tok("comment", i), L("*/}")>>)
    /\ i' = i + 1
    /\ UNCHANGED <<children, index, result, hasVFor, jsxBody, ret, pc>>
    /\ UNCHANGED <<scriptKind, moduleLines>>
    /\ UNCHANGED otherThanWalker

\* case 1 of walkChildren
WalkElement ==
    /\ pc = "walk" /\ i <= Len(children)
    /\ children[i].type = ELEMENT
    /\ index' = i
    /\ result' = processElementNode(children, i)
    /\ parts' = Append(parts, result'.jsx)
    /\ i' = i + result'.consumed
    /\ hasVFor' = (hasVFor \/ (children[i].tag # "slot" /\ findDirective(children[i], "for")))
    /\ UNCHANGED <<children, jsxBody, ret, pc>>
    /\ UNCHANGED <<scriptKind, moduleLines>>
    /\ UNCHANGED otherThanWalker

(*************************** template/index.ts *****************************)
RECURSIVE skipChain(_, _)
\* the inner while loop of countRootElements: the cursor after the chain
skipChain(cs, k) ==
    IF k > Len(cs) THEN k
    ELSE IF cs[k].type = TEXT /\ cs[k].content \in {" ", "\n"} THEN skipChain(cs, k + 1)
    ELSE IF cs[k].type = ELEMENT
            /\ (findDirective(cs[k], "else-if") \/ findDirective(cs[k], "else"))
         THEN IF findDirective(cs[k], "else") THEN k + 1 ELSE skipChain(cs, k + 1)
    ELSE k

RECURSIVE countFrom(_, _)
countFrom(cs, k) ==
    IF k > Len(cs) THEN 0
    ELSE LET child == cs[k] IN
         IF child.type = ELEMENT
            THEN IF findDirective(child, "if")
                    THEN 1 + countFrom(cs, skipChain(cs, k + 1))
                 ELSE IF findDirective(child, "else-if") \/ findDirective(child, "else")
                    THEN countFrom(cs, k + 1)
                 ELSE 1 + countFrom(cs, k + 1)
         ELSE IF child.type = INTERPOLATION THEN 1 + countFrom(cs, k + 1)
         ELSE IF child.type = TEXT
            THEN (IF child.content = "txt" THEN 1 ELSE 0) + countFrom(cs, k + 1)
         ELSE IF child.type = COMMENT THEN 1 + countFrom(cs, k + 1)
         ELSE countFrom(cs, k + 1)

countRootElements(cs) == countFrom(cs, 1)

templateToJsx(cs, ps) ==
    LET trimmed == Trim(Concat(ps))
    IN  IF trimmed = <<>> THEN <<L("<>"), L("</>")>>
        ELSE IF countRootElements(cs) > 1 THEN <<L("<>")>> \o trimmed \o <<L("</>")>>
        ELSE trimmed

\* the tail of templateToJsx, once walkChildren has returned
TemplateToJsx ==
    /\ pc = "walk" /\ i > Len(children)
    /\ jsxBody' = templateToJsx(children, parts)
    /\ pc' = "assemble"
    /\ UNCHANGED <<children, i, parts, index, result, hasVFor, ret>>
    /\ UNCHANGED <<scriptKind, moduleLines>>
    /\ UNCHANGED otherThanWalker

(*************************** script/index.ts *******************************)
StartsWithBrace(t) == t \in {L("{"), L("{/*"), L("{_renderList(")}
EndsWithBrace(t) == t \in {L("}"), L("*/}"), L("))}")}

ensureValidJsxReturn(jsx) ==
    LET trimmed == Trim(jsx)
    IN  IF trimmed # <<>> /\ StartsWithBrace(trimmed[1])
           /\ EndsWithBrace(trimmed[Len(trimmed)]) /\ trimmed[1] # L("{/*")
        THEN <<L("<>")>> \o trimmed \o <<L("</>")>>
        ELSE jsx

\* scriptToDefineComponent: `return () => (` ensureValidJsxReturn(jsxBody) `)`
\* the helper v-for calls are compiled to
RENDER_LIST_HELPER == "function _renderList(source, renderItem) { ... }"

\* what `parsed` holds: a setup script, a plain script with or without an
\* `export default`, or no script
ScriptKinds == {"setup", "script", "script without export default", "none"}

\* `if (options.hasVFor) { lines.push(RENDER_LIST_HELPER); lines.push("") }`
helperLines(opts) == IF opts.hasVFor THEN <<RENDER_LIST_HELPER, "">> ELSE <<>>

\* the lines every assembler ends with; "jsxBody" is the line that holds
\* ensureValidJsxReturn(jsxBody)
renderLines == <<"return () => (", "jsxBody", ")", "}", "})">>

\* the lines of fromScriptSetup from defineComponent on
fromScriptSetupLines(opts) ==
    <<"export default defineComponent({", "setup(...) {">> \o helperLines(opts)
        \o <<"body">> \o renderLines

\* fromRegularScript: the content as it is when it has no `export default`
fromRegularScript(kind, opts) ==
    IF kind = "script without export default" THEN <<"content">>
    ELSE <<"export default defineComponent({", "...afterExport,", "setup() {">>
             \o helperLines(opts) \o renderLines

\* scriptToDefineComponent: one assembler for each kind of script
scriptToDefineComponent(kind, opts) ==
    IF kind = "setup" THEN fromScriptSetupLines(opts)
    ELSE IF kind \in {"script", "script without export default"}
        THEN fromRegularScript(kind, opts)
    ELSE <<"export default defineComponent({", "setup() {">> \o helperLines(opts)
             \o renderLines

\* scriptToDefineComponent up to the render return
ScriptToDefineComponent ==
    /\ pc = "assemble"
    /\ \E kind \in ScriptKinds :
         /\ scriptKind' = kind
         /\ moduleLines' = scriptToDefineComponent(kind, [hasVFor |-> hasVFor])
         /\ pc' = IF \E k \in 1..Len(moduleLines') : moduleLines'[k] = "jsxBody"
                  THEN "render" ELSE "returned"
    /\ UNCHANGED <<children, i, parts, index, result, hasVFor, jsxBody, ret>>
    /\ UNCHANGED otherThanWalker

\* `indentStr(ensureValidJsxReturn(jsxBody), 6)` in the render return
EnsureValidJsxReturn ==
    /\ pc = "render"
    /\ ret' = ensureValidJsxReturn(jsxBody)
    /\ pc' = "done"
    /\ UNCHANGED <<children, i, parts, index, result, hasVFor, jsxBody>>
    /\ UNCHANGED <<scriptKind, moduleLines>>
    /\ UNCHANGED otherThanWalker

(*************************** script text ***********************************)
\* Script text is a sequence of tokens.  One-character tokens stand for the
\* character itself; "x" is an identifier character.  The other tokens are
\* lexemes the scanners match as a whole:
\*   "defineProps" ...  a macro name
\*   "const="           a binding prefix `const NAME = `
\*   "export"           the keyword `export` with the whitespace after it
\*   "import"           the keyword `import` with the whitespace after it
\*   "from"             a clause `from '<source>'`
\*   "'s'"              a quoted string
IsWs(c) == c \in {" ", "\n"}

RECURSIVE skipBlanks(_, _)
\* while (p < length && (text[p] === " " || text[p] === "\t")) p++
skipBlanks(text, p) ==
    IF p <= Len(text) /\ text[p] = " " THEN skipBlanks(text, p + 1) ELSE p

RECURSIVE skipWs(_, _)
\* the end of a greedy \s* starting at p
skipWs(text, p) ==
    IF p <= Len(text) /\ IsWs(text[p]) THEN skipWs(text, p + 1) ELSE p

RECURSIVE lineStart(_, _)
\* while (start > 0 && content[start - 1] !== "\n") start--
lineStart(text, p) ==
    IF p > 1 /\ text[p - 1] # "\n" THEN lineStart(text, p - 1) ELSE p

RECURSIVE trimStartWs(_)
trimStartWs(t) == IF t # <<>> /\ IsWs(Head(t)) THEN trimStartWs(Tail(t)) ELSE t

RECURSIVE trimEndWs(_)
trimEndWs(t) ==
    IF t # <<>> /\ IsWs(t[Len(t)]) THEN trimEndWs(SubSeq(t, 1, Len(t) - 1)) ELSE t

\* String.prototype.trim on script text
trimWs(t) == trimEndWs(trimStartWs(t))

RECURSIVE indexOfFrom(_, _, _)
\* the first position >= p holding token c, or 0
indexOfFrom(text, c, p) ==
    IF p > Len(text) THEN 0
    ELSE IF text[p] = c THEN p
    ELSE indexOfFrom(text, c, p + 1)

\* the text with the positions of a set deleted (MagicString.remove + toString)
without(text, gone) ==
    LET F[k \in 0..Len(text)] ==
            IF k = 0 THEN <<>>
            ELSE IF k \in gone THEN F[k - 1] ELSE Append(F[k - 1], text[k])
    IN  F[Len(text)]

(*************************** macros.ts: matchBalanced **********************)
NoMatch == [found |-> FALSE, content |-> <<>>, end |-> 0]

RECURSIVE balancedScan(_, _, _, _, _)
\* the while loop of matchBalanced: the position where depth reaches zero, or
\* 0 when the text ends first
balancedScan(str, k, depth, open, close) ==
    IF k > Len(str) THEN 0
    ELSE LET d == IF str[k] = open THEN depth + 1
                  ELSE IF str[k] = close THEN depth - 1
                  ELSE depth
         IN  IF d = 0 THEN k ELSE balancedScan(str, k + 1, d, open, close)

\* matchBalanced without the final `if (depth !== 0) return null`: the end of
\* the text closes whatever is still open
matchBalanced_closesAtEnd(str, startIdx, open, close) ==
    IF startIdx > Len(str) \/ str[startIdx] # open THEN NoMatch
    ELSE LET e == balancedScan(str, startIdx + 1, 1, open, close)
             stop == IF e = 0 THEN Len(str) + 1 ELSE e
         IN  [found |-> TRUE, content |-> SubSeq(str, startIdx + 1, stop - 1), end |-> stop]

matchBalanced(str, startIdx, open, close) ==
    IF startIdx > Len(str) \/ str[startIdx] # open THEN NoMatch
    ELSE LET e == balancedScan(str, startIdx + 1, 1, open, close)
         IN  IF e = 0 THEN NoMatch
             ELSE [found |-> TRUE, content |-> SubSeq(str, startIdx + 1, e - 1), end |-> e]

(*************************** macros.ts: findMacro **************************)
NoMacro == [found |-> FALSE, start |-> 0, end |-> 0, typeParam |-> <<>>, runtimeArg |-> <<>>]

RECURSIVE findMacroFrom(_, _, _)
\* the `while ((m = re.exec(content)) !== null)` loop of findMacro, the next
\* occurrence of the macro name being looked for from position p on.
\* start..end-1 is the range of the statement.
findMacroFrom(content, macroName, p) ==
    IF p > Len(content) THEN NoMacro
    ELSE IF content[p] # macroName THEN findMacroFrom(content, macroName, p + 1)
    ELSE
      LET macroStart == IF p > 1 /\ content[p - 1] = "const=" THEN p - 1 ELSE p
          afterMacro == p + 1
          angle == matchBalanced(content, afterMacro, "<", ">")
          typeParam == IF angle.found THEN angle.content ELSE <<>>
          pos == IF angle.found THEN angle.end + 1 ELSE afterMacro
          paren == matchBalanced(content, pos, "(", ")")
      IN  IF ~paren.found THEN findMacroFrom(content, macroName, p + 1)
          ELSE
            LET argContent == trimWs(paren.content)
                e1 == skipBlanks(content, paren.end + 1)
                e2 == IF e1 <= Len(content) /\ content[e1] = ";" THEN e1 + 1 ELSE e1
                e3 == IF e2 <= Len(content) /\ content[e2] = "\n" THEN e2 + 1 ELSE e2
            IN  [found |-> TRUE,
                 start |-> lineStart(content, macroStart),
                 end |-> e3,
                 typeParam |-> typeParam,
                 runtimeArg |-> IF argContent # <<>> /\ typeParam = <<>>
                                THEN argContent ELSE <<>>]

findMacro(content, macroName) == findMacroFrom(content, macroName, 1)

(*************************** macros.ts: parseImports ***********************)
\* `^[ \t]*KEYWORD\s+` with the m flag, searched from position p: the line
\* start of the next line that begins with the keyword, or 0
RECURSIVE nextLineWith(_, _, _)
nextLineWith(text, keyword, p) ==
    IF p > Len(text) THEN 0
    ELSE IF (p = 1 \/ text[p - 1] = "\n")
            /\ skipBlanks(text, p) <= Len(text)
            /\ text[skipBlanks(text, p)] = keyword
         THEN p
    ELSE nextLineWith(text, keyword, p + 1)

RECURSIVE splitOn(_, _, _)
\* String.prototype.split(sep): the pieces of text, cur being the piece so far
splitOn(text, sep, cur) ==
    IF text = <<>> THEN <<cur>>
    ELSE IF Head(text) = sep THEN <<cur>> \o splitOn(Tail(text), sep, <<>>)
    ELSE splitOn(Tail(text), sep, Append(cur, Head(text)))

\* the named imports of a brace list: the trimmed, non-empty pieces between commas
namedImports(content) ==
    LET pieces == splitOn(content, ",", <<>>)
        kept == { k \in 1..Len(pieces) : trimWs(pieces[k]) # <<>> }
        G[k \in 0..Len(pieces)] ==
            IF k = 0 THEN <<>>
            ELSE IF k \in kept THEN Append(G[k - 1], trimWs(pieces[k])) ELSE G[k - 1]
    IN  G[Len(pieces)]

\* `\s*;?` after a from clause that ends before position p
afterFromClause(text, p) ==
    LET q == skipWs(text, p)
    IN  IF q <= Len(text) /\ text[q] = ";" THEN q + 1 ELSE q

\* the end of `^(.+?)\s+from ...` matched at pos: the position of the first
\* "from" that follows at least one character of the same line and then
\* whitespace, or 0
simpleFrom(text, pos) ==
    LET ok(f) == /\ text[f] = "from"
                 /\ \E a \in (pos + 1)..(f - 1) :
                        /\ \A k \in pos..(a - 1) : text[k] # "\n"
                        /\ \A k \in a..(f - 1) : IsWs(text[k])
        fs == { f \in (pos + 2)..Len(text) : ok(f) }
    IN  IF fs = {} THEN 0 ELSE CHOOSE f \in fs : \A g \in fs : f <= g

RECURSIVE parseImportsFrom(_, _)
\* the `while ((m = importStartRe.exec(content)) !== null)` loop of
\* parseImports from position p: the import records with their ranges
parseImportsFrom(content, p) ==
    LET stmtStart == nextLineWith(content, "import", p) IN
    IF stmtStart = 0 THEN <<>>
    ELSE
      LET pos == skipBlanks(content, stmtStart) + 1
          braceIdx == indexOfFrom(content, "{", pos)
          firstFrom == indexOfFrom(content, "from", pos)
      IN  IF pos <= Len(content) /\ content[pos] = "'s'"
             THEN parseImportsFrom(content, pos)              \* side-effect import
          ELSE IF braceIdx # 0 /\ (firstFrom = 0 \/ braceIdx < firstFrom)
             THEN LET balanced == matchBalanced(content, braceIdx, "{", "}")
                      fromAt == skipWs(content, balanced.end + 1)
                  IN  IF ~balanced.found
                         \/ fromAt > Len(content) \/ content[fromAt] # "from"
                      THEN parseImportsFrom(content, pos)
                      ELSE LET fromPos == afterFromClause(content, fromAt + 1)
                               before == trimWs(SubSeq(content, pos, braceIdx - 1))
                               default == IF before # <<>> /\ before[Len(before)] = ","
                                          THEN trimWs(SubSeq(before, 1, Len(before) - 1))
                                          ELSE before
                           IN  <<[defaultImport |-> default,
                                  namedImports |-> namedImports(balanced.content),
                                  start |-> stmtStart, end |-> fromPos]>>
                               \o parseImportsFrom(content, fromPos)
          ELSE LET f == simpleFrom(content, pos)
               IN  IF f = 0 THEN parseImportsFrom(content, pos)
                   ELSE LET endIdx == afterFromClause(content, f + 1)
                        IN  <<[defaultImport |-> trimWs(SubSeq(content, pos, f - 1)),
                               namedImports |-> <<>>,
                               start |-> stmtStart, end |-> endIdx]>>
                            \o parseImportsFrom(content, endIdx)

parseImports(content) == parseImportsFrom(content, 1)

(*************************** macros.ts: raw imports and exports ************)
\* the end of `\s*;?[ \t]*$` after a side-effect import's string, which ends
\* before position a; 0 when the line holds something else
sideEffectEnd(text, a) ==
    LET b == skipWs(text, a)
        afterSemi == skipBlanks(text, b + 1)
        newlines == { k \in a..(b - 1) : text[k] = "\n" }
    IN  IF b <= Len(text) /\ text[b] = ";"
           /\ (afterSemi > Len(text) \/ text[afterSemi] = "\n")
        THEN afterSemi
        ELSE IF b > Len(text) THEN b
        ELSE IF newlines # {} THEN CHOOSE k \in newlines : \A j \in newlines : j <= k
        ELSE 0

RECURSIVE sideEffectsFrom(_, _)
\* the side-effect import statements of the text from position p, with their ranges
sideEffectsFrom(text, p) ==
    LET s == nextLineWith(text, "import", p) IN
    IF s = 0 THEN <<>>
    ELSE LET q == skipBlanks(text, s) + 1
             e == IF q <= Len(text) /\ text[q] = "'s'" THEN sideEffectEnd(text, q + 1) ELSE 0
         IN  IF e = 0 THEN sideEffectsFrom(text, q)
             ELSE <<[text |-> trimWs(SubSeq(text, s, e - 1)), start |-> s, end |-> e]>>
                  \o sideEffectsFrom(text, IF e > q THEN e ELSE q)

RECURSIVE exportEnd(_, _, _, _)
\* the inner `while (pos < currentBody.length)` loop of the export scan: the
\* end of the statement
exportEnd(text, pos, braceDepth, foundBrace) ==
    IF pos > Len(text) THEN Len(text) + 1
    ELSE LET ch == text[pos] IN
         IF ch = "{" THEN exportEnd(text, pos + 1, braceDepth + 1, TRUE)
         ELSE IF ch = "}"
            THEN IF foundBrace /\ braceDepth - 1 = 0
                 THEN LET q == skipBlanks(text, pos + 1)
                      IN  IF q <= Len(text) /\ text[q] = "from"
                             THEN afterFromClause(text, q + 1)
                          ELSE IF q <= Len(text) /\ text[q] = ";" THEN q + 1
                          ELSE q
                 ELSE exportEnd(text, pos + 1, braceDepth - 1, foundBrace)
         ELSE IF ch = ";" /\ braceDepth = 0 THEN pos + 1
         ELSE IF ch = "\n" /\ braceDepth = 0 /\ ~foundBrace
            THEN LET q == skipBlanks(text, pos + 1)
                 IN  IF q <= Len(text) /\ text[q] = "|"
                        THEN exportEnd(text, pos + 1, braceDepth, foundBrace)
                     ELSE pos
         ELSE exportEnd(text, pos + 1, braceDepth, foundBrace)

RECURSIVE exportsFrom(_, _)
\* the `while ((exMatch = exportStartRe.exec(currentBody)) !== null)` loop:
\* the export statements of the text from position p, with their ranges
exportsFrom(text, p) ==
    LET stmtStart == nextLineWith(text, "export", p) IN
    IF stmtStart = 0 THEN <<>>
    ELSE LET afterKeyword == skipBlanks(text, stmtStart) + 1
             stmtEnd == exportEnd(text, afterKeyword, 0, FALSE)
         IN  <<[text |-> trimWs(SubSeq(text, stmtStart, stmtEnd - 1)),
                start |-> stmtStart, end |-> stmtEnd]>>
             \o exportsFrom(text, stmtEnd)

Ranges(rs) == UNION { rs[k].start..(rs[k].end - 1) : k \in 1..Len(rs) }
Texts(rs) == [k \in 1..Len(rs) |-> rs[k].text]

(*************************** macros.ts: extractMacros **********************)
\* the macros looked for with findMacro, in the order extractMacros takes them
MacroNames == <<"defineProps", "defineEmits", "defineSlots", "defineExpose", "defineOptions">>

Absent == [present |-> FALSE, type |-> <<>>, runtime |-> <<>>]

\* the record extractMacros stores for a macro: slots keeps the type only,
\* expose and options the runtime argument only
macroRecord(name, m) ==
    IF ~m.found THEN Absent
    ELSE [present |-> TRUE,
          type |-> IF name \in {"defineProps", "defineEmits", "defineSlots"}
                   THEN m.typeParam ELSE <<>>,
          runtime |-> IF name \in {"defineProps", "defineEmits", "defineExpose", "defineOptions"}
                      THEN m.runtimeArg ELSE <<>>]

macroRange(m) == IF m.found THEN m.start..(m.end - 1) ELSE {}

extractedMacros(content) ==
    [k \in 1..Len(MacroNames) |-> macroRecord(MacroNames[k], findMacro(content, MacroNames[k]))]

macroRanges(content) ==
    UNION { macroRange(findMacro(content, MacroNames[k])) : k \in 1..Len(MacroNames) }

\* result.imports
importInfos(content) ==
    LET found == parseImports(content)
    IN  [k \in 1..Len(found) |->
           [defaultImport |-> found[k].defaultImport, namedImports |-> found[k].namedImports]]

\* what `s` has lost once the imports and the macro calls are removed from it
removedRanges(content) == Ranges(parseImports(content)) \cup macroRanges(content)

\* the second pass, over currentBody = s.toString(): side-effect imports,
\* export statements, and the residual body
rawStatements(currentBody) ==
    LET sideEffects == sideEffectsFrom(currentBody, 1)
        exports == exportsFrom(currentBody, 1)
    IN  [rawImports |-> Texts(sideEffects),
         rawExports |-> Texts(exports),
         body |-> trimWs(without(currentBody, Ranges(sideEffects) \cup Ranges(exports)))]

\* the result of extractMacros for a script.  The scripts of this model hold
\* no withDefaults and no defineModel call, so findWithDefaults and
\* findDefineModels find nothing.
extractMacros(content) ==
    LET raw == rawStatements(without(content, removedRanges(content)))
    IN  [macros |-> extractedMacros(content),
         imports |-> importInfos(content),
         rawImports |-> raw.rawImports,
         rawExports |-> raw.rawExports,
         body |-> raw.body]

\* result.imports, and the removal of the import statements from `s`
ExtractImports ==
    /\ mpc = "imports"
    /\ imports' = importInfos(script)
    /\ removed' = removed \cup Ranges(parseImports(script))
    /\ mpc' = "macros"
    /\ UNCHANGED <<stmts, script, macros, rawImports, rawExports, body, tsx>>
    /\ UNCHANGED otherThanScript

\* the macro calls, each located in scriptContent and removed from `s`
ExtractMacroCalls ==
    /\ mpc = "macros"
    /\ macros' = extractedMacros(script)
    /\ removed' = removed \cup macroRanges(script)
    /\ mpc' = "raw"
    /\ UNCHANGED <<stmts, script, imports, rawImports, rawExports, body, tsx>>
    /\ UNCHANGED otherThanScript

\* side-effect imports and exports, taken from what is left of `s`
ExtractRawStatements ==
    /\ mpc = "raw"
    /\ LET raw == rawStatements(without(script, removed))
       IN  /\ rawImports' = raw.rawImports
           /\ rawExports' = raw.rawExports
           /\ body' = raw.body
    /\ mpc' = "assemble"
    /\ UNCHANGED <<stmts, script, removed, macros, imports, tsx>>
    /\ UNCHANGED otherThanScript

(*************************** script/index.ts: fromScriptSetup **************)
\* The module text, as the sequence of its pieces: the import block (one
\* piece), the side-effect imports, `export default defineComponent({`, the
\* setup signature, the setup body, the render return, the closing of setup
\* and `})`, then the hoisted export statements.
fromScriptSetup(raws, bodyText, exports) ==
    <<"<imports>">> \o Concat(raws)
    \o <<"defineComponent({", "setup(){">>
    \o bodyText
    \o <<"return()=>()", "}", "})">>
    \o (IF Len(exports) > 0 THEN JoinWith(exports, <<"\n">>) ELSE <<>>)

FromScriptSetup ==
    /\ mpc = "assemble"
    /\ tsx' = fromScriptSetup(rawImports, body, rawExports)
    /\ mpc' = "done"
    /\ UNCHANGED <<stmts, script, removed, macros, imports, rawImports, rawExports, body>>
    /\ UNCHANGED otherThanScript

(*************************** template/utils.ts: identifier rewriting *******)
\* Expression text is a sequence of tokens; two tokens side by side are two
\* pieces of text with nothing between them, so <<"x", "y">> is the single
\* identifier `xy` and <<"x", ".", "value">> is `x.value`.
WordTokens == {"x", "y", "value", "props"}

\* `(?<![.\w])\bNAME\b` at position p
standalone(text, name, p) ==
    /\ text[p] = name
    /\ (p = 1 \/ (text[p - 1] # "." /\ text[p - 1] \notin WordTokens))
    /\ (p = Len(text) \/ text[p + 1] \notin WordTokens)

\* `\.value\b` right after position p
valueFollows(text, p) ==
    /\ p + 2 <= Len(text)
    /\ text[p + 1] = "."
    /\ text[p + 2] = "value"
    /\ (p + 2 = Len(text) \/ text[p + 3] \notin WordTokens)

\* the regex of appendRefValue without `(?!\.value\b)`
refMatch_noValueLookahead(text, name, p) ==
    /\ standalone(text, name, p)
    /\ (p = Len(text) \/ text[p + 1] # "(")

\* `(?<![.\w])\bNAME\b(?!\.value\b)(?=\s*[^(]|$)` at position p: `\s*` may
\* match nothing, so the last lookahead fails only on a `(` right after NAME
refMatch(text, name, p) ==
    /\ standalone(text, name, p)
    /\ ~valueFollows(text, p)
    /\ (p = Len(text) \/ text[p + 1] # "(")

\* the braceDepth loop over `before`, the text in front of position p
braceDepth(text, p) ==
    Cardinality({ k \in 1..(p - 1) : text[k] = "{" })
    - Cardinality({ k \in 1..(p - 1) : text[k] = "}" })

\* after.match(/^\s*:/) together with braceDepth > 0
inKeyPosition(text, p) ==
    LET q == skipWs(text, p + 1)
    IN  /\ q <= Len(text)
        /\ text[q] = ":"
        /\ braceDepth(text, p) > 0

\* the replace callback of appendRefValue without its object-key check
refPiece_noKeyCheck(text, name, p) ==
    IF refMatch(text, name, p) THEN <<name, ".", "value">> ELSE <<text[p]>>

\* what the replace callback of appendRefValue leaves at position p
refPiece(text, name, p) ==
    IF refMatch(text, name, p) /\ ~inKeyPosition(text, p)
    THEN <<name, ".", "value">>
    ELSE <<text[p]>>

RECURSIVE appendRefValue(_, _)
\* refs is the set in its iteration order
appendRefValue(expr, refs) ==
    IF refs = <<>> THEN expr
    ELSE appendRefValue(Concat([p \in 1..Len(expr) |-> refPiece(expr, Head(refs), p)]),
                        Tail(refs))

\* before.endsWith("props.")
afterProps(text, p) == p > 2 /\ text[p - 1] = "." /\ text[p - 2] = "props"

\* what the replace callback of prefixProps leaves at position p
propPiece(text, name, p) ==
    IF standalone(text, name, p) /\ ~afterProps(text, p) /\ ~inKeyPosition(text, p)
    THEN <<"props", ".", name>>
    ELSE <<text[p]>>

RECURSIVE prefixProps(_, _)
prefixProps(expr, propNames) ==
    IF propNames = <<>> THEN expr
    ELSE prefixProps(Concat([p \in 1..Len(expr) |-> propPiece(expr, Head(propNames), p)]),
                     Tail(propNames))

\* rewriteTemplateGlobals, its step `result = prefixProps(result, ctx.propIdentifiers)`
PrefixProps ==
    /\ rpc = "props"
    /\ rewritten' = prefixProps(rewritten, propIdentifiers)
    /\ previous' = rewritten
    /\ rpc' = "refs"
    /\ UNCHANGED <<expression, refIdentifiers, propIdentifiers>>
    /\ UNCHANGED otherThanRewriter

\* rewriteTemplateGlobals, its step `result = appendRefValue(result, ctx.refIdentifiers)`
AppendRefValue ==
    /\ rpc = "refs"
    /\ rewritten' = appendRefValue(rewritten, refIdentifiers)
    /\ previous' = rewritten
    /\ rpc' = "rewritten"
    /\ UNCHANGED <<expression, refIdentifiers, propIdentifiers>>
    /\ UNCHANGED otherThanRewriter

\* appendRefValue applied to text the rewriter has already produced
AppendRefValueAgain ==
    /\ rpc = "rewritten"
    /\ rewritten' = appendRefValue(rewritten, refIdentifiers)
    /\ previous' = rewritten
    /\ rpc' = "done"
    /\ UNCHANGED <<expression, refIdentifiers, propIdentifiers>>
    /\ UNCHANGED otherThanRewriter

\* the tokens short expressions are drawn from
ExprTokens == {"x", "y", "value", ".", "(", ":", "{", "}", " "}

\* longer expressions
LongExprs ==
    { \* { x: x, y }
      <<"{", " ", "x", ":", " ", "x", ",", " ", "y", " ", "}">>,
      \* { x: y.x, y: x.value }
      <<"{", " ", "x", ":", " ", "y", ".", "x", ",", " ", "y", ":", " ", "x", ".", "value", " ", "}">>,
      \* y ? x : value
      <<"y", " ", "?", " ", "x", " ", ":", " ", "value">>,
      \* { y: y ? x : value }
      <<"{", " ", "y", ":", " ", "y", " ", "?", " ", "x", " ", ":", " ", "value", " ", "}">>,
      \* x(y) + x.value.value
      <<"x", "(", "y", ")", " ", "+", " ", "x", ".", "value", ".", "value">>,
      \* x + x.value
      <<"x", " ", "+", " ", "x", ".", "value">>,
      \* props.y + { value }
      <<"props", ".", "y", " ", "+", " ", "{", " ", "value", " ", "}">> }

RefOrders == { <<>>, <<"x">>, <<"value">>, <<"x", "value">>, <<"value", "x">> }
PropOrders == { <<>>, <<"y">> }

(*************************** setup scripts *********************************)
\* A setup script is a sequence of statements, each ending with a newline.
\* kind tells what the statement is; for a macro call, name is the macro,
\* typeArg and runtimeArg are the arguments as written.
Stmt(kind, name, toks, typeArg, runtimeArg) ==
    [kind |-> kind, name |-> name, toks |-> toks, typeArg |-> typeArg,
     runtimeArg |-> runtimeArg]

\* defineX<{ x }>()
TypedCall(name) ==
    Stmt("macro", name, <<name, "<", "{", "x", "}", ">", "(", ")", "\n">>,
         <<"{", "x", "}">>, <<>>)

\* defineX({ x });
RuntimeCall(name) ==
    Stmt("macro", name, <<name, "(", "{", "x", "}", ")", ";", "\n">>,
         <<>>, <<"{", "x", "}">>)

\* defineX({ x        -- the parenthesis is never closed
UnclosedCall(name) ==
    Stmt("unclosed", name, <<name, "(", "{", "x", "\n">>, <<>>, <<>>)

MacroStmts ==
    { TypedCall("defineProps"), TypedCall("defineEmits"),
      RuntimeCall("defineProps"), RuntimeCall("defineExpose"),
      UnclosedCall("defineProps"), UnclosedCall("defineEmits"),
      \* const p = defineProps<x<x>>()
      Stmt("macro", "defineProps",
           <<"const=", "defineProps", "<", "x", "<", "x", ">", ">", "(", ")", "\n">>,
           <<"x", "<", "x", ">">>, <<>>),
      \* defineProps<{ x: () => x }>()
      Stmt("macro", "defineProps",
           <<"defineProps", "<", "{", "x", ":", "(", ")", "=", ">", "x", "}", ">",
             "(", ")", "\n">>,
           <<"{", "x", ":", "(", ")", "=", ">", "x", "}">>, <<>>),
      \* defineEmits<{ x()      -- the angle bracket is never closed
      Stmt("unclosed", "defineEmits",
           <<"defineEmits", "<", "{", "x", "(", ")", "\n">>, <<>>, <<>>) }

ExportStmts ==
    { \* export x = x;
      Stmt("export", "", <<"export", "x", "=", "x", ";", "\n">>, <<>>, <<>>),
      \* export x = x
      Stmt("export", "", <<"export", "x", "=", "x", "\n">>, <<>>, <<>>),
      \* export x =        a multi-line union type
      \*   | x
      \*   | x;
      Stmt("export", "",
           <<"export", "x", "=", "\n", " ", "|", "x", "\n", " ", "|", "x", ";", "\n">>,
           <<>>, <<>>),
      \* export x {        an interface or object body
      \*   x;
      \* }
      Stmt("export", "", <<"export", "x", "{", "\n", "x", ";", "\n", "}", "\n">>, <<>>, <<>>),
      \* export { x } from 's';
      Stmt("export", "", <<"export", "{", "x", "}", " ", "from", ";", "\n">>, <<>>, <<>>),
      \* export x =        a multi-line union of object types
      \*   | { x }
      \*   | { x }
      Stmt("export", "",
           <<"export", "x", "=", "\n", " ", "|", "{", "x", "}", "\n",
             " ", "|", "{", "x", "}", "\n">>,
           <<>>, <<>>) }

ImportStmts ==
    { \* import x from 's'
      Stmt("import", "", <<"import", "x", " ", "from", "\n">>, <<>>, <<>>),
      \* import { x, x } from 's';
      Stmt("import", "", <<"import", "{", "x", ",", "x", "}", " ", "from", ";", "\n">>,
           <<>>, <<>>),
      \* import 's'
      Stmt("sideEffect", "", <<"import", "'s'", "\n">>, <<>>, <<>>) }

PlainStmts ==
    { \* x = x()
      Stmt("plain", "", <<"x", "=", "x", "(", ")", "\n">>, <<>>, <<>>),
      \* x = x;          with the next statement on the same line
      Stmt("plain", "", <<"x", "=", "x", ";", " ">>, <<>>, <<>>),
      \* redefineProps(x)     a call of a function of the script
      Stmt("plain", "", <<"re", "defineProps", "(", "x", ")", "\n">>, <<>>, <<>>),
      \* definePropsX()
      Stmt("plain", "", <<"defineProps", "X", "(", ")", "\n">>, <<>>, <<>>) }

StmtKinds == MacroStmts \cup ExportStmts \cup ImportStmts \cup PlainStmts

RECURSIVE Flatten(_)
\* the text of a sequence of statements
Flatten(ss) == IF ss = <<>> THEN <<>> ELSE Head(ss).toks \o Flatten(Tail(ss))

(*************************** script/imports.ts: mergeImports ***************)
\* An ImportInfo record.  "" stands for an absent defaultImport.
ImportInfo(source, defaultImport, named, typeOnly) ==
    [source |-> source, defaultImport |-> defaultImport,
     namedImports |-> named, typeOnly |-> typeOnly]

Named(imported, local) == [imported |-> imported, local |-> local]

\* the named lists import statements are written with: none, `{ ref }`,
\* `{ h }`, `{ ref as r }`, `{ ref, ref as r }`
NamedLists ==
    { <<>>, <<Named("ref", "ref")>>, <<Named("h", "h")>>, <<Named("ref", "r")>>,
      <<Named("ref", "ref"), Named("ref", "r")>> }

ImportInfos ==
    { ImportInfo(s, d, n, t) :
        s \in {"vue", "lib"}, d \in {"", "D"}, n \in NamedLists, t \in BOOLEAN }

\* the imports the assembler adds by itself
AdditionalImports ==
    { <<>>,
      <<ImportInfo("vue", "", <<Named("h", "h")>>, FALSE)>>,
      <<ImportInfo("vue", "", <<Named("ref", "ref")>>, TRUE)>> }

\* where the record of a source stands in the map, 0 when it has none
keyIndex(m, source) ==
    IF \E k \in 1..Len(m) : m[k].source = source
    THEN CHOOSE k \in 1..Len(m) : m[k].source = source
    ELSE 0

RECURSIVE pushMissing(_, _)
\* `for (const named of imp.namedImports)`: push what no entry of current
\* has the imported name of
pushMissing(current, named) ==
    IF named = <<>> THEN current
    ELSE pushMissing(
           IF \E k \in 1..Len(current) : current[k].imported = Head(named).imported
           THEN current ELSE Append(current, Head(named)),
           Tail(named))

\* the else branch of the loop body: imp merged into the record current
mergeInto(current, imp) ==
    [source |-> current.source,
     defaultImport |-> IF imp.defaultImport # "" /\ current.defaultImport = ""
                       THEN imp.defaultImport ELSE current.defaultImport,
     namedImports |-> pushMissing(current.namedImports, imp.namedImports),
     typeOnly |-> IF ~imp.typeOnly THEN FALSE ELSE current.typeOnly]

\* one turn of `for (const imp of [...existing, ...additional])`
mergeOne(m, imp) ==
    LET k == keyIndex(m, imp.source)
    IN  IF k = 0 THEN Append(m, imp)
        ELSE [m EXCEPT ![k] = mergeInto(m[k], imp)]

MergeImport ==
    /\ ipc = "merge"
    /\ next < Len(existing \o additional)
    /\ map' = mergeOne(map, (existing \o additional)[next + 1])
    /\ next' = next + 1
    /\ UNCHANGED <<existing, additional, ipc>>
    /\ UNCHANGED otherThanImports

\* `return Array.from(map.values())`
MergeImportsReturn ==
    /\ ipc = "merge"
    /\ next = Len(existing \o additional)
    /\ ipc' = "done"
    /\ UNCHANGED <<existing, additional, map, next>>
    /\ UNCHANGED otherThanImports

(*************************** directives.ts and walker.ts: processAllProps **)
\* An element is the sequence of the names of its directives; every
\* directive is written with an expression and without argument or modifier.
\* "focus" and "tooltip" stand for custom directives.
ElementProps ==
    { <<>>, <<"memo">>, <<"focus">>, <<"bind", "focus">>, <<"memo", "tooltip">>,
      <<"show", "focus", "html">>, <<"cloak", "model">>, <<"if", "pre", "on">>,
      <<"focus", "focus">>, <<"text", "memo", "bind">> }

\* buildDirectiveSource: `v-name="exp"`
buildDirectiveSource(name) == <<"v-", name>>

\* the FallbackItem processDirective pushes; line is where the element is
fallbackItem(name, line) ==
    [source |-> buildDirectiveSource(name), reason |-> <<"Directive", name>>, line |-> line]

NoDirectiveResult == [attr |-> "", fallback |-> FALSE, omit |-> FALSE]

\* processDirective with an attribute returned for unrecognised directives
processDirective_asAttribute(name) ==
    IF name \in {"show", "model", "html", "text"}
       THEN [NoDirectiveResult EXCEPT !.attr = name]
    ELSE IF name = "pre" THEN NoDirectiveResult
    ELSE IF name = "cloak" THEN [NoDirectiveResult EXCEPT !.omit = TRUE]
    ELSE [NoDirectiveResult EXCEPT !.attr = name, !.fallback = TRUE]

\* the DirectiveResult of processDirective; `case 'memo'` shares the default
\* branch
processDirective(name) ==
    IF name \in {"show", "model", "html", "text"}
       THEN [NoDirectiveResult EXCEPT !.attr = name]
    ELSE IF name = "pre" THEN NoDirectiveResult
    ELSE IF name = "cloak" THEN [NoDirectiveResult EXCEPT !.omit = TRUE]
    ELSE [NoDirectiveResult EXCEPT !.fallback = TRUE]

\* directives processAllProps leaves to generateAttributes or control flow
HandledElsewhere == {"bind", "on", "if", "else-if", "else", "for", "slot"}

RECURSIVE generateAttributes(_)
\* the attributes generateAttributes makes: of v-bind and v-on only
generateAttributes(props) ==
    IF props = <<>> THEN <<>>
    ELSE (IF Head(props) \in {"bind", "on"} THEN <<Head(props)>> ELSE <<>>)
         \o generateAttributes(Tail(props))

\* processAllProps, `const attrResult = generateAttributes(node, ctx)`
StartElement ==
    /\ dpc = "element"
    /\ elemIdx <= Len(elems)
    /\ attrs' = generateAttributes(elems[elemIdx])
    /\ extraAttrs' = <<>>
    /\ propIdx' = 1
    /\ dpc' = "props"
    /\ UNCHANGED <<elems, elemIdx, elementAttrs, fallbacks>>
    /\ UNCHANGED otherThanProps

\* one turn of `for (const prop of node.props)` that ends in `continue`
\* before processDirective is reached
SkipDirective ==
    /\ dpc = "props"
    /\ propIdx <= Len(elems[elemIdx])
    /\ elems[elemIdx][propIdx] \in HandledElsewhere \cup {"show"}
    /\ propIdx' = propIdx + 1
    /\ UNCHANGED <<elems, elemIdx, attrs, extraAttrs, elementAttrs, fallbacks, dpc>>
    /\ UNCHANGED otherThanProps

\* one turn of the loop that calls processDirective
ProcessDirective ==
    /\ dpc = "props"
    /\ propIdx <= Len(elems[elemIdx])
    /\ elems[elemIdx][propIdx] \notin HandledElsewhere \cup {"show"}
    /\ LET name == elems[elemIdx][propIdx]
           res == processDirective(name)
       IN  /\ fallbacks' = IF res.fallback
                           THEN Append(fallbacks, fallbackItem(name, elemIdx))
                           ELSE fallbacks
           /\ extraAttrs' = IF ~res.omit /\ res.attr # ""
                            THEN Append(extraAttrs, res.attr)
                            ELSE extraAttrs
    /\ propIdx' = propIdx + 1
    /\ UNCHANGED <<elems, elemIdx, attrs, elementAttrs, dpc>>
    /\ UNCHANGED otherThanProps

\* the end of processAllProps: the extra attributes join the others, and the
\* element is elementAttrs with them
FinishElement ==
    /\ dpc = "props"
    /\ propIdx > Len(elems[elemIdx])
    /\ elementAttrs' = Append(elementAttrs, attrs \o extraAttrs)
    /\ elemIdx' = elemIdx + 1
    /\ dpc' = "element"
    /\ UNCHANGED <<elems, propIdx, attrs, extraAttrs, fallbacks>>
    /\ UNCHANGED otherThanProps

\* the walk has elementAttrs the last element
FinishElements ==
    /\ dpc = "element"
    /\ elemIdx > Len(elems)
    /\ dpc' = "done"
    /\ UNCHANGED <<elems, elemIdx, propIdx, attrs, extraAttrs, elementAttrs, fallbacks>>
    /\ UNCHANGED otherThanProps

(*************************** index.ts: convert; llm/index.ts ****************)
\* the calls of convert that are under way together
Calls == {1, 2}

\* a component source: the messages its parse reports and the directives of
\* the element of its template
Sfc(errors, template) == [errors |-> errors, template |-> template]

DirectiveNames == {"focus", "memo", "show"}

SfcSources ==
    { Sfc(<<>>, t) : t \in SeqsUpTo(DirectiveNames, MaxFallbacks) }
        \cup { Sfc(<<"e1">>, <<>>), Sfc(<<"e1", "e2">>, <<"focus">>) }

ConvertOptions == [llm : BOOLEAN]

\* parseSFC: the descriptor's template and the messages of the parse
parseSFC(source) == [templateAst |-> source.template, errors |-> source.errors]

\* `parsed.errors.length > 0` read as "more than one message"
parseFailed_moreThanOne(parsed) == Len(parsed.errors) > 1

\* `parsed.errors.length > 0`
parseFailed(parsed) == Len(parsed.errors) > 0

NoContext == [warnings |-> <<>>, fallbacks |-> <<>>, hasVFor |-> FALSE]

\* a context that is the one another call made, when there is one
createContext_shared(c) ==
    IF \E d \in Calls \ {c} : cpc[d] # "start"
       THEN ctx[CHOOSE d \in Calls \ {c} : cpc[d] # "start"]
       ELSE NoContext

\* `const ctx: JsxContext = { ..., warnings: [], fallbacks: [], hasVFor: false }`
createContext(c) == NoContext

RECURSIVE templateFallbacks(_, _)
\* what the walk of the element pushes to ctx.fallbacks: processAllProps
\* calls processDirective for the directives it does not leave to others
templateFallbacks(props, line) ==
    IF props = <<>> THEN <<>>
    ELSE (IF /\ Head(props) \notin HandledElsewhere \cup {"show"}
             /\ processDirective(Head(props)).fallback
             THEN << fallbackItem(Head(props), line) >>
             ELSE <<>>)
         \o templateFallbacks(Tail(props), line)

RECURSIVE directiveAttrs(_)
\* the extraAttrs of processAllProps
directiveAttrs(props) ==
    IF props = <<>> THEN <<>>
    ELSE (IF /\ Head(props) \notin HandledElsewhere \cup {"show"}
             /\ ~processDirective(Head(props)).omit
             /\ processDirective(Head(props)).attr # ""
             THEN << processDirective(Head(props)).attr >>
             ELSE <<>>)
         \o directiveAttrs(Tail(props))

\* the JSX of the element: its tag, the attributes processAllProps gives it
renderFullElement(props) ==
    <<"<div">> \o generateAttributes(props) \o directiveAttrs(props) \o <<"/>">>

RECURSIVE moduleText(_, _)
\* lines.join("\n"), with the JSX body in its line
moduleText(lines, jsx) ==
    IF lines = <<>> THEN <<>>
    ELSE (IF Head(lines) = "jsxBody" THEN jsx ELSE << Head(lines) >>)
         \o moduleText(Tail(lines), jsx)

\* generateFallbackComment
generateFallbackComment(item) ==
    <<"{/* TODO: vue-to-tsx - ">> \o item.reason \o <<" */}\n{/* Original: ">>
        \o item.source \o <<" */}">>

RECURSIVE findText(_, _, _)
\* the first place at or after p where pat occurs in text, 0 when none
findText(text, pat, p) ==
    IF p + Len(pat) - 1 > Len(text) THEN 0
    ELSE IF SubSeq(text, p, p + Len(pat) - 1) = pat THEN p
    ELSE findText(text, pat, p + 1)

\* String.prototype.replace with a string pattern: the first occurrence only
replaceText(text, pat, rep) ==
    LET p == findText(text, pat, 1)
    IN  IF p = 0 THEN text
        ELSE SubSeq(text, 1, p - 1) \o rep \o SubSeq(text, p + Len(pat), Len(text))

RECURSIVE applyReplacements(_, _)
\* `for (const [originalSource, replacement] of replacements)` of convert
applyReplacements(text, entries) ==
    IF entries = <<>> THEN text
    ELSE applyReplacements(
             replaceText(text,
                         generateFallbackComment([source |-> Head(entries)[1],
                                                  reason |-> <<>>]),
                         Head(entries)[2]),
             Tail(entries))

\* Map.set: a key already there keeps its place and takes the new value
mapSet(m, key, value) ==
    IF \E k \in 1..Len(m) : m[k][1] = key
       THEN [k \in 1..Len(m) |-> IF m[k][1] = key THEN <<key, value>> ELSE m[k]]
       ELSE Append(m, <<key, value>>)

RECURSIVE parseEntries(_, _, _, _)
\* the loop of parseResponse over the first min(replacements, fallbacks) items
parseEntries(items, list, k, m) ==
    IF k > Len(items) \/ k > Len(list) THEN m
    ELSE parseEntries(items, list, k + 1,
                      IF items[k] # "" THEN mapSet(m, list[k].source, <<items[k]>>) ELSE m)

\* parseResponse: a text without a JSON array gives the empty Map
parseResponse(text, list) ==
    IF ~text.json THEN <<>> ELSE parseEntries(text.items, list, 1, <<>>)

\* the texts generateText may give for n items: no array, an empty array, an
\* expression for every item, an expression for the first and blanks after
Replies(n) ==
    { [json |-> FALSE, items |-> <<>>], [json |-> TRUE, items |-> <<>>],
      [json |-> TRUE, items |-> [k \in 1..n |-> "<jsx/>"]],
      [json |-> TRUE, items |-> [k \in 1..n |-> IF k = 1 THEN "<jsx/>" ELSE ""]] }

\* buildPrompt: the items of the request, in order
buildPrompt(list) == [items |-> list]

NoOutcome == [kind |-> "", text |-> [json |-> FALSE, items |-> <<>>]]
Met(kind) == [NoOutcome EXCEPT !.kind = kind]

Pending ==
    [status |-> "pending", tsx |-> <<>>, css |-> "", warnings |-> <<>>, fallbacks |-> <<>>]

\* the promise of convert rejected
Rejected == [Pending EXCEPT !.status = "rejected"]

\* the ConvertResult of a source whose parse reported errors
errorResult(parsed) ==
    [status |-> "resolved", tsx |-> <<>>, css |-> "null",
     warnings |-> [k \in 1..Len(parsed.errors) |-> [message |-> parsed.errors[k]]],
     fallbacks |-> <<>>]

\* the ConvertResult at the end of convert
convertResult(text, context) ==
    [status |-> "resolved", tsx |-> text, css |-> "null",
     warnings |-> context.warnings, fallbacks |-> context.fallbacks]

\* the guard of step 8 with the remote step always taken
shouldResolve_always(opts, list) == TRUE

\* `options?.llm && ctx.fallbacks.length > 0`
shouldResolve(opts, list) == opts.llm /\ Len(list) > 0

DeterministicStages ==
    <<"parseSFC", "extractStyles", "extractMacros", "templateToJsx",
      "scriptToDefineComponent">>

\* convert from its call to its first await or its return; inside it,
\* resolveFallbacks from its call to `await import("ai")` or its return
Convert(c) ==
    /\ cpc[c] = "start"
    /\ LET parsed == parseSFC(sources[c])
           walked == [createContext(c) EXCEPT
                         !.fallbacks = @ \o templateFallbacks(parsed.templateAst, 1)]
           text == moduleText(scriptToDefineComponent("none", [hasVFor |-> walked.hasVFor]),
                              renderFullElement(parsed.templateAst))
       IN  IF parseFailed(parsed)
           THEN /\ ran' = [ran EXCEPT ![c] = <<"parseSFC">>]
                /\ returned' = [returned EXCEPT ![c] = errorResult(parsed)]
                /\ cpc' = [cpc EXCEPT ![c] = "done"]
                /\ UNCHANGED <<ctx, tsxText, replacements, outcome>>
           ELSE /\ ctx' = [ctx EXCEPT ![c] = walked]
                /\ tsxText' = [tsxText EXCEPT ![c] = text]
                /\ IF ~shouldResolve(options[c], walked.fallbacks)
                   THEN /\ ran' = [ran EXCEPT ![c] = DeterministicStages]
                        /\ returned' = [returned EXCEPT ![c] = convertResult(text, walked)]
                        /\ cpc' = [cpc EXCEPT ![c] = "done"]
                        /\ UNCHANGED <<replacements, outcome>>
                   ELSE /\ ran' = [ran EXCEPT ![c] =
                                      DeterministicStages \o <<"resolveFallbacks">>]
                        /\ UNCHANGED returned
                        /\ IF Len(walked.fallbacks) = 0
                           THEN /\ cpc' = [cpc EXCEPT ![c] = "resume"]
                                /\ outcome' = [outcome EXCEPT ![c] = Met("nothing to resolve")]
                                /\ UNCHANGED replacements
                           ELSE \E provider \in {"", "anthropic", "openai"} :
                                  IF provider = ""
                                  THEN /\ cpc' = [cpc EXCEPT ![c] = "resume"]
                                       /\ outcome' = [outcome EXCEPT ![c] = Met("no provider")]
                                       /\ UNCHANGED replacements
                                  ELSE /\ cpc' = [cpc EXCEPT ![c] = "importAi"]
                                       /\ UNCHANGED <<replacements, outcome>>
    /\ UNCHANGED <<sources, options, requests>>
    /\ UNCHANGED otherThanConvert

\* `await import("ai")` settles.  It stands before the try block: when it
\* fails resolveFallbacks rejects, and convert, which awaits it bare, rejects
ImportAi(c) ==
    /\ cpc[c] = "importAi"
    /\ \E loaded \in BOOLEAN :
         IF loaded
         THEN /\ cpc' = [cpc EXCEPT ![c] = "importProvider"]
              /\ UNCHANGED <<outcome, returned>>
         ELSE /\ cpc' = [cpc EXCEPT ![c] = "done"]
              /\ outcome' = [outcome EXCEPT ![c] = Met("client library not loaded")]
              /\ returned' = [returned EXCEPT ![c] = Rejected]
    /\ UNCHANGED <<sources, options, ctx, ran, tsxText, requests, replacements>>
    /\ UNCHANGED otherThanConvert

\* `await import("@ai-sdk/...")` settles, inside the try block: generateText
\* is called with the prompt, or the catch returns the empty Map
ImportProvider(c) ==
    /\ cpc[c] = "importProvider"
    /\ \E loaded \in BOOLEAN :
         IF loaded
         THEN /\ requests' = [requests EXCEPT ![c] = Append(@, buildPrompt(ctx[c].fallbacks))]
              /\ cpc' = [cpc EXCEPT ![c] = "generateText"]
              /\ UNCHANGED <<outcome, replacements>>
         ELSE /\ replacements' = [replacements EXCEPT ![c] = <<>>]
              /\ outcome' = [outcome EXCEPT ![c] = Met("provider not loaded")]
              /\ cpc' = [cpc EXCEPT ![c] = "resume"]
              /\ UNCHANGED requests
    /\ UNCHANGED <<sources, options, ctx, ran, tsxText, returned>>
    /\ UNCHANGED otherThanConvert

\* `await generateText(...)` settles: parseResponse on its text, or the catch
GenerateText(c) ==
    /\ cpc[c] = "generateText"
    /\ \/ /\ replacements' = [replacements EXCEPT ![c] = <<>>]
          /\ outcome' = [outcome EXCEPT ![c] = Met("request failed")]
       \/ \E text \in Replies(Len(ctx[c].fallbacks)) :
            /\ replacements' = [replacements EXCEPT ![c] = parseResponse(text, ctx[c].fallbacks)]
            /\ outcome' = [outcome EXCEPT ![c] = [kind |-> "reply", text |-> text]]
    /\ cpc' = [cpc EXCEPT ![c] = "resume"]
    /\ UNCHANGED <<sources, options, ctx, ran, tsxText, requests, returned>>
    /\ UNCHANGED otherThanConvert

\* convert after `await resolveFallbacks(...)`: the replacements are applied
\* and the result returned
ResumeConvert(c) ==
    /\ cpc[c] = "resume"
    /\ LET text == applyReplacements(tsxText[c], replacements[c])
       IN  /\ tsxText' = [tsxText EXCEPT ![c] = text]
           /\ returned' = [returned EXCEPT ![c] = convertResult(text, ctx[c])]
    /\ cpc' = [cpc EXCEPT ![c] = "done"]
    /\ UNCHANGED <<sources, options, ctx, ran, requests, replacements, outcome>>
    /\ UNCHANGED otherThanConvert

(*************************** template/utils.ts: rewriteTemplateGlobals ******)
\* Names and expressions are sequences of characters here, so that a name
\* that begins another ($route, $router) is told from it the way the regular
\* expressions and String.prototype.includes tell them.
Dollar(word) == <<"$">> \o word

attrsWord == <<"a", "t", "t", "r", "s">>
slotsWord == <<"s", "l", "o", "t", "s">>
emitWord == <<"e", "m", "i", "t">>
propsWord == <<"p", "r", "o", "p", "s">>
routeWord == <<"r", "o", "u", "t", "e">>

\* TEMPLATE_GLOBALS, in the order of Object.entries
TEMPLATE_GLOBALS ==
    << [global |-> Dollar(attrsWord), replacement |-> attrsWord, contextMember |-> "attrs"],
       [global |-> Dollar(slotsWord), replacement |-> slotsWord, contextMember |-> "slots"],
       [global |-> Dollar(emitWord), replacement |-> emitWord, contextMember |-> "emit"],
       [global |-> Dollar(propsWord), replacement |-> propsWord, contextMember |-> "props"] >>

WARN_GLOBALS ==
    << Dollar(<<"t">>), Dollar(routeWord), Dollar(routeWord \o <<"r">>),
       Dollar(<<"i", "1", "8", "n">>), Dollar(<<"r", "e", "f", "s">>) >>

\* [a-zA-Z0-9_], over the characters the expressions are written with
IdentChars ==
    {"a", "b", "c", "d", "e", "f", "g", "h", "i", "j", "k", "l", "m", "n", "o", "p", "q",
     "r", "s", "t", "u", "v", "w", "x", "y", "z", "0", "1", "2", "3", "4", "5", "6", "7",
     "8", "9", "_"}

\* the regex `\$name(?![a-zA-Z0-9_])` matches at p
globalAt(text, global, p) ==
    /\ p + Len(global) - 1 <= Len(text)
    /\ SubSeq(text, p, p + Len(global) - 1) = global
    /\ (p + Len(global) > Len(text) \/ text[p + Len(global)] \notin IdentChars)

\* regex.test(text)
globalIn(text, global) == \E p \in 1..Len(text) : globalAt(text, global, p)

RECURSIVE replaceGlobal(_, _, _, _)
\* text.replace(regex, replacement), the regex being global: from p on
replaceGlobal(text, global, replacement, p) ==
    IF p > Len(text) THEN <<>>
    ELSE IF globalAt(text, global, p)
        THEN replacement \o replaceGlobal(text, global, replacement, p + Len(global))
    ELSE << text[p] >> \o replaceGlobal(text, global, replacement, p + 1)

RECURSIVE rewriteGlobals(_, _, _)
\* the loop over TEMPLATE_GLOBALS from entry g on: the text and the members
\* added to ctx.usedContextMembers ("props" is not added)
rewriteGlobals(text, used, g) ==
    IF g > Len(TEMPLATE_GLOBALS) THEN [result |-> text, used |-> used]
    ELSE IF globalIn(text, TEMPLATE_GLOBALS[g].global)
        THEN rewriteGlobals(
                 replaceGlobal(text, TEMPLATE_GLOBALS[g].global,
                               TEMPLATE_GLOBALS[g].replacement, 1),
                 IF TEMPLATE_GLOBALS[g].contextMember # "props"
                    THEN used \cup {TEMPLATE_GLOBALS[g].contextMember} ELSE used,
                 g + 1)
    ELSE rewriteGlobals(text, used, g + 1)

\* the message of the warning for a framework global
warnMessage(global) ==
    <<"Template global '">> \o global
        \o <<"' detected. You may need to add the equivalent Composition API call to your setup function.">>

\* `ctx.warnings.some((w) => w.message.includes(global))`
alreadyWarned(list, global) ==
    \E w \in 1..Len(list) : findText(list[w].message, global, 1) # 0

RECURSIVE warnGlobals(_, _, _)
\* the loop over WARN_GLOBALS from entry g on; the regex is tested on `expr`,
\* the text as it came in
warnGlobals(expr, list, g) ==
    IF g > Len(WARN_GLOBALS) THEN list
    ELSE warnGlobals(expr,
                     IF globalIn(expr, WARN_GLOBALS[g]) /\ ~alreadyWarned(list, WARN_GLOBALS[g])
                        THEN Append(list, [message |-> warnMessage(WARN_GLOBALS[g])])
                        ELSE list,
                     g + 1)

\* rewriteTemplateGlobals for a component without prop or ref identifiers
\* (ctx.propIdentifiers and ctx.refIdentifiers empty)
rewriteTemplateGlobals(expr, used, list) ==
    LET rewrote == rewriteGlobals(expr, used, 1)
    IN  [result |-> rewrote.result, used |-> rewrote.used,
         warnings |-> warnGlobals(expr, list, 1)]

\* the names a template expression is made of
Atoms ==
    { TEMPLATE_GLOBALS[g].global : g \in 1..Len(TEMPLATE_GLOBALS) }
        \cup { WARN_GLOBALS[g] : g \in 1..Len(WARN_GLOBALS) } \cup { <<"x">> }

\* an expression is its names joined by `+`
exprText(atoms) == JoinWith(atoms, <<"+">>)

\* the expressions of a template: one name, or one of a few pairs of names
GlobalExprs ==
    { <<a>> : a \in Atoms }
        \cup { << WARN_GLOBALS[2], WARN_GLOBALS[3] >>, << WARN_GLOBALS[3], WARN_GLOBALS[2] >>,
               << WARN_GLOBALS[1], WARN_GLOBALS[1] >>,
               << TEMPLATE_GLOBALS[1].global, TEMPLATE_GLOBALS[1].global >>,
               << TEMPLATE_GLOBALS[4].global, WARN_GLOBALS[5] >>,
               << TEMPLATE_GLOBALS[3].global, TEMPLATE_GLOBALS[2].global >> }

\* one call of rewriteTemplateGlobals, on the next expression of the template
RewriteTemplateGlobals ==
    /\ gpc = "walk"
    /\ exprAt <= Len(templateExprs)
    /\ LET out == rewriteTemplateGlobals(exprText(templateExprs[exprAt]),
                                         usedContextMembers, warnings)
       IN  /\ jsxExprs' = Append(jsxExprs, out.result)
           /\ usedContextMembers' = out.used
           /\ warnings' = out.warnings
    /\ exprAt' = exprAt + 1
    /\ UNCHANGED <<templateExprs, setupSig, gpc>>
    /\ UNCHANGED otherThanGlobals

(*************************** script/index.ts: setup parameters **************)
\* the macros of a setup script the parameters depend on
Macros(props, emits, slots, expose, models) ==
    [props |-> props, emits |-> emits, slots |-> slots, expose |-> expose,
     models |-> models]

SetupMacros ==
    { Macros(FALSE, FALSE, FALSE, FALSE, FALSE), Macros(TRUE, FALSE, FALSE, FALSE, FALSE),
      Macros(FALSE, TRUE, FALSE, FALSE, FALSE), Macros(FALSE, FALSE, TRUE, FALSE, FALSE),
      Macros(FALSE, FALSE, FALSE, TRUE, FALSE), Macros(FALSE, FALSE, FALSE, FALSE, TRUE) }

\* `setup()`: no parameter
NoSetup == [propsParam |-> "", ctxParts |-> <<>>]

\* the setup parameters of fromScriptSetup
setupParameters(m, used) ==
    LET hasProps == m.props \/ m.models
        hasEmits == m.emits \/ m.models
        ctxParts == (IF m.slots \/ "slots" \in used THEN <<"slots">> ELSE <<>>)
                    \o (IF hasEmits \/ "emit" \in used THEN <<"emit">> ELSE <<>>)
                    \o (IF m.expose THEN <<"expose">> ELSE <<>>)
                    \o (IF "attrs" \in used THEN <<"attrs">> ELSE <<>>)
    IN  IF ~hasProps /\ ctxParts = <<>> THEN NoSetup
        ELSE [propsParam |-> IF hasProps THEN "props" ELSE "_props", ctxParts |-> ctxParts]

\* the setup signature of each assembler: fromRegularScript and the
\* script-less branch write `setup() {`
setupSignature(kind, m, used) ==
    IF kind = "setup" THEN setupParameters(m, used) ELSE NoSetup

\* scriptToDefineComponent, as far as the setup signature
SetupSignature ==
    /\ gpc = "walk"
    /\ exprAt > Len(templateExprs)
    /\ \E kind \in ScriptKinds, m \in SetupMacros :
         setupSig' = setupSignature(kind, m, usedContextMembers)
    /\ gpc' = "done"
    /\ UNCHANGED <<templateExprs, exprAt, jsxExprs, usedContextMembers, warnings>>
    /\ UNCHANGED otherThanGlobals

(*************************** template/events.ts: processEvent **************)
\* An event name is a sequence of characters: the letters "a" and "b", the
\* hyphen and the colon.  A handler is a sequence of lexemes: pieces of words
\* (adjacent pieces make one identifier), punctuation, blanks.
LowerCase == {"a", "b"}

\* String.prototype.toUpperCase on one character
toUpperCase(c) == IF c = "a" THEN "A" ELSE IF c = "b" THEN "B" ELSE c

EventNames ==
    { n \in SeqsUpTo(LowerCase \cup {"-", ":"}, MaxEventName) :
        n # <<>> /\ n[1] \in LowerCase }

\* toJsxEventName of events.ts
toJsxEventName(eventName, capture) ==
    LET colonIdx == indexOfFrom(eventName, ":", 1)
        base == IF colonIdx > 0 THEN SubSeq(eventName, 1, colonIdx - 1) ELSE eventName
        suffix == IF colonIdx > 0 THEN SubSeq(eventName, colonIdx, Len(eventName)) ELSE <<>>
        capitalized == IF base = <<>> THEN <<>>
                       ELSE << toUpperCase(base[1]) >> \o Tail(base)
    IN  <<"on">> \o capitalized \o suffix \o (IF capture THEN <<"Capture">> ELSE <<>>)

\* [\w$]: a piece of a word
WordPieces == {"handler", "obj", "method", "count", "x", "e", "function", "async", "A"}

RECURSIVE wordsEnd(_, _)
\* the end of a greedy [\w$]* starting at p
wordsEnd(text, p) ==
    IF p <= Len(text) /\ text[p] \in WordPieces THEN wordsEnd(text, p + 1) ELSE p

RECURSIVE memberTail(_, _)
\* (?:[.?][\w$]+)*$ matches text from p on
memberTail(text, p) ==
    IF p > Len(text) THEN TRUE
    ELSE /\ text[p] \in {".", "?"}
         /\ wordsEnd(text, p + 1) > p + 1
         /\ memberTail(text, wordsEnd(text, p + 1))

\* isSimpleHandler: /^[\w$][\w$]*(?:[.?][\w$]+)*$/ on expr.trim()
isSimpleHandler(expr) ==
    LET trimmed == trimWs(expr)
    IN  /\ wordsEnd(trimmed, 1) > 1
        /\ memberTail(trimmed, wordsEnd(trimmed, 1))

\* isFunctionExpression
isFunctionExpression(expr) ==
    LET trimmed == trimWs(expr)
    IN  \/ (trimmed # <<>> /\ trimmed[1] = "function")
        \/ (trimmed # <<>> /\ trimmed[1] = "(" /\ indexOfFrom(trimmed, "=>", 1) > 0)
        \/ /\ wordsEnd(trimmed, 1) > 1
           /\ LET q == skipWs(trimmed, wordsEnd(trimmed, 1))
              IN  q <= Len(trimmed) /\ trimmed[q] = "=>"

NATIVE_MODIFIERS == {"capture", "once", "passive"}

RECURSIVE runtimeModifiers(_)
\* modifiers.filter((m) => !NATIVE_MODIFIERS.has(m))
runtimeModifiers(modifiers) ==
    IF modifiers = <<>> THEN <<>>
    ELSE (IF Head(modifiers) \in NATIVE_MODIFIERS THEN <<>> ELSE << Head(modifiers) >>)
         \o runtimeModifiers(Tail(modifiers))

\* runtimeModifiers.map((m) => `'${m}'`).join(", ")
modList(mods) == JoinWith([k \in 1..Len(mods) |-> <<"'", mods[k], "'">>], <<", ">>)

\* processEvent; the context has no prop or ref identifiers
processEvent(dir) ==
    LET rawHandler == dir.exp
        handler == IF rawHandler # <<>>
                      THEN rewriteTemplateGlobals(rawHandler, {}, <<>>).result ELSE <<>>
        hasCapture == \E k \in 1..Len(dir.modifiers) : dir.modifiers[k] = "capture"
        runtime == runtimeModifiers(dir.modifiers)
        jsxName == toJsxEventName(dir.arg, hasCapture)
        bare == isSimpleHandler(handler) \/ isFunctionExpression(handler)
        value == IF bare THEN handler ELSE <<"() => ">> \o handler
    IN  IF handler = <<>> THEN [name |-> jsxName, value |-> <<"() => {}">>]
        ELSE IF runtime # <<>>
            THEN [name |-> jsxName,
                  value |-> <<"withModifiers(">>
                            \o (IF bare THEN value ELSE <<"() => ">> \o handler)
                            \o <<", [">> \o modList(runtime) \o <<"])">>]
        ELSE [name |-> jsxName, value |-> value]

\* the handler expressions of the directives, each with what it is: no
\* expression, an identifier, a member-access chain, a function or arrow
\* expression, or another expression
Handler(text, kind) == [text |-> text, kind |-> kind]

HandlerExprs ==
    { Handler(<<>>, "none"),
      Handler(<<"handler">>, "identifier"),
      Handler(<<" ", "handler", " ">>, "identifier"),
      Handler(<<"obj", ".", "method">>, "member"),
      Handler(<<"count", "++">>, "other"),
      Handler(<<"x", "(", ")">>, "other"),
      Handler(<<"(", ")", " ", "=>", " ", "x", "(", ")">>, "arrow"),
      Handler(<<"e", " ", "=>", " ", "x", "(", "e", ")">>, "arrow"),
      Handler(<<"async", " ", "(", ")", " ", "=>", " ", "x", "(", ")">>, "arrow"),
      Handler(<<"function", "(", ")", " ", "{", "}">>, "function"),
      Handler(<<"function", "A", "(", ")">>, "other") }

ModifierNames == {"capture", "once", "passive", "stop", "prevent"}

\* a DirectiveNode of v-on: its argument, its expression, its modifiers
EventDirectives ==
    { [arg |-> n, exp |-> h.text, kind |-> h.kind, modifiers |-> ms] :
        n \in EventNames, h \in HandlerExprs, ms \in SeqsUpTo(ModifierNames, MaxModifiers) }

NoEvent == [arg |-> <<>>, exp |-> <<>>, kind |-> "none", modifiers |-> <<>>]
NoEventProp == [name |-> <<>>, value |-> <<>>]

\* one call of processEvent
ProcessEvent ==
    /\ epc = "event"
    /\ eventProp' = processEvent(eventDir)
    /\ epc' = "done"
    /\ UNCHANGED eventDir
    /\ UNCHANGED otherThanEvents

(*************************** script/macros.ts: parsePropTypes **************)
\* The text of a type is a sequence of pieces: a word is one piece, and
\* every character the scans look at (brackets, `;`, `:`, `?`, `=`, `>`,
\* blank, line feed) is a piece of its own, so `=>` is <<"=", ">">>.
PunctPieces ==
    {"{", "}", "(", ")", "<", ">", "[", "]", ";", ":", "?", ",", "=", " ", "\n"}

\* \w+ on one piece
isWordPiece(t) == t \notin PunctPieces

PropInfo(name, type, optional) == [name |-> name, type |-> type, optional |-> optional]

\* `if (body.startsWith("{")) body = body.slice(1)` and the same at the end
stripBraces(inner) ==
    LET b1 == IF inner # <<>> /\ Head(inner) = "{" THEN Tail(inner) ELSE inner
    IN  IF b1 # <<>> /\ b1[Len(b1)] = "}" THEN SubSeq(b1, 1, Len(b1) - 1) ELSE b1

\* `if (trimmed) entries.push(trimmed)`
pushEntry(entries, current) ==
    IF trimWs(current) # <<>> THEN Append(entries, trimWs(current)) ELSE entries

RECURSIVE splitEntries(_, _, _, _, _)
\* `for (let i = 0; i < body.length; i++)` with the push after the loop
splitEntries(inner, k, current, depth, entries) ==
    IF k > Len(inner) THEN pushEntry(entries, current)
    ELSE LET ch == inner[k]
             d  == IF ch \in {"{", "(", "<"} THEN depth + 1
                   ELSE IF ch \in {"}", ")", ">"} THEN depth - 1
                   ELSE depth
         IN  IF d = 0 /\ ch \in {";", "\n"}
             THEN splitEntries(inner, k + 1, <<>>, d, pushEntry(entries, current))
             ELSE splitEntries(inner, k + 1, Append(current, ch), d, entries)

\* `entry.trim().replace(/;$/, "").trim()`
cleanEntry(entry) ==
    LET e == trimWs(entry)
    IN  trimWs(IF e # <<>> /\ e[Len(e)] = ";" THEN SubSeq(e, 1, Len(e) - 1) ELSE e)

\* `entry.match(/^\s*(\w+)\s*(\?)?\s*:\s*(.+)$/s)`: <<>> when it does not
\* match, else the one PropInfo pushed
matchEntry(entry) ==
    LET e     == cleanEntry(entry)
        p2    == skipWs(e, 2)
        opt   == p2 <= Len(e) /\ e[p2] = "?"
        p3    == skipWs(e, IF opt THEN p2 + 1 ELSE p2)
        p4    == skipWs(e, p3 + 1)
    IN  IF /\ e # <<>>
           /\ isWordPiece(e[1])
           /\ p3 <= Len(e)
           /\ e[p3] = ":"
           /\ p4 <= Len(e)
        THEN <<PropInfo(e[1], trimWs(SubSeq(e, p4, Len(e))), opt)>>
        ELSE <<>>

RECURSIVE matchEntries(_)
\* `for (let entry of entries)`
matchEntries(entries) ==
    IF entries = <<>> THEN <<>>
    ELSE matchEntry(Head(entries)) \o matchEntries(Tail(entries))

parsePropTypes(typeStr) ==
    LET inner == trimWs(stripBraces(trimWs(typeStr)))
    IN  IF inner = <<>> THEN <<>>
        ELSE matchEntries(splitEntries(inner, 1, <<>>, 0, <<>>))

(*************************** script/index.ts: buildPropsOption *************)
TS_TO_RUNTIME ==
    [t \in {"string", "number", "boolean", "symbol"} |->
        CASE t = "string" -> "String" [] t = "number" -> "Number"
          [] t = "boolean" -> "Boolean" [] OTHER -> "Symbol"]

\* `t.includes("=>")`
includesArrow(t) == \E k \in 1..(Len(t) - 1) : t[k] = "=" /\ t[k + 1] = ">"

asPropType(ctor, originalTsType) ==
    <<ctor, " ", "as", " ", "PropType", "<">> \o originalTsType \o <<">">>

tsTypeToRuntime(tsType, originalTsType) ==
    LET t == trimWs(tsType)
    IN  IF Len(t) = 1 /\ t[1] \in DOMAIN TS_TO_RUNTIME
        THEN [expr |-> <<TS_TO_RUNTIME[t[1]]>>, needsPropType |-> FALSE]
        ELSE IF \/ (Len(t) >= 2 /\ t[Len(t) - 1] = "[" /\ t[Len(t)] = "]")
                \/ (Len(t) >= 2 /\ t[1] = "Array" /\ t[2] = "<")
        THEN [expr |-> asPropType("Array", originalTsType), needsPropType |-> TRUE]
        ELSE IF t = <<"Function">> \/ includesArrow(t)
        THEN [expr |-> asPropType("Function", originalTsType), needsPropType |-> TRUE]
        ELSE [expr |-> asPropType("Object", originalTsType), needsPropType |-> TRUE]

\* where the vue import of the wanted kind stands in the list, 0 when absent
vueIndex(list, typeOnly) ==
    IF \E k \in 1..Len(list) : list[k].source = "vue" /\ list[k].typeOnly = typeOnly
    THEN CHOOSE k \in 1..Len(list) :
           /\ list[k].source = "vue" /\ list[k].typeOnly = typeOnly
           /\ \A j \in 1..(k - 1) : ~(list[j].source = "vue" /\ list[j].typeOnly = typeOnly)
    ELSE 0

\* the list after the call: addVueImport changes its argument in place
addVueImport(list, name, typeOnly) ==
    LET with == IF vueIndex(list, typeOnly) = 0
                THEN Append(list, ImportInfo("vue", "", <<>>, typeOnly))
                ELSE list
        k    == vueIndex(with, typeOnly)
    IN  [with EXCEPT ![k].namedImports = pushMissing(@, <<Named(name, name)>>)]

RECURSIVE mergeAll(_, _)
mergeAll(m, list) ==
    IF list = <<>> THEN m ELSE mergeAll(mergeOne(m, Head(list)), Tail(list))

\* the array mergeImports returns; its records are new ones, with copies of
\* the lists of names
mergeImports(imps, more) == mergeAll(<<>>, imps \o more)

\* one entry of the props option: `name: { type: T, required: true }`
propEntry(prop) ==
    <<prop.name, ":", " ", "{", " ", "type", ":", " ">>
    \o tsTypeToRuntime(prop.type, prop.type).expr
    \o <<",", " ", "required", ":", " ", IF prop.optional THEN "false" ELSE "true", " ", "}">>

RECURSIVE propEntries(_)
\* entries.join(",\n")
propEntries(infos) ==
    IF infos = <<>> THEN <<>>
    ELSE propEntry(Head(infos))
         \o (IF Tail(infos) = <<>> THEN <<>> ELSE <<",", "\n">> \o propEntries(Tail(infos)))

NoOption == <<>>

\* buildPropsOption for props declared without withDefaults: the option text
\* (NoOption for null) and allImports after the call
buildPropsOption(decl, allImports) ==
    LET infos == parsePropTypes(decl.text)
        needs == \E k \in 1..Len(infos) :
                    tsTypeToRuntime(infos[k].type, infos[k].type).needsPropType
    IN  IF decl.kind = "none" THEN [option |-> NoOption, imports |-> allImports]
        ELSE IF decl.kind = "runtime" THEN [option |-> decl.text, imports |-> allImports]
        ELSE IF infos = <<>> THEN [option |-> NoOption, imports |-> allImports]
        ELSE [option  |-> <<"{", "\n">> \o propEntries(infos) \o <<"\n", "}">>,
              imports |-> IF needs THEN addVueImport(allImports, "PropType", TRUE)
                          ELSE allImports]

\* the identifiers of VUE_AUTO_IMPORTS the texts can hold, in table order
VUE_AUTO_IMPORTS == <<"ref", "computed", "PropType">>

alreadyImported(existingImports) ==
    UNION { { existingImports[k].namedImports[j].local :
                j \in 1..Len(existingImports[k].namedImports) }
            \cup (IF existingImports[k].defaultImport # ""
                  THEN {existingImports[k].defaultImport} ELSE {}) :
            k \in 1..Len(existingImports) }

\* detectAutoImports on a text: every identifier is from 'vue'
detectAutoImports(combined, existingImports) ==
    LET missing == SelectSeq(VUE_AUTO_IMPORTS,
                     LAMBDA id : /\ id \notin alreadyImported(existingImports)
                                 /\ \E k \in 1..Len(combined) : combined[k] = id)
    IN  IF missing = <<>> THEN <<>>
        ELSE <<ImportInfo("vue", "", [k \in 1..Len(missing) |-> Named(missing[k], missing[k])],
                          FALSE)>>

vueMacroNames ==
    {"defineProps", "defineEmits", "defineSlots", "defineExpose", "defineOptions",
     "defineModel", "withDefaults"}

\* `imp.namedImports = imp.namedImports.filter(...)` on the vue records
withoutMacros(merged) ==
    [k \in 1..Len(merged) |->
        IF merged[k].source = "vue"
        THEN [merged[k] EXCEPT
                !.namedImports = SelectSeq(@, LAMBDA n : n.imported \notin vueMacroNames)]
        ELSE merged[k]]

\* fromScriptSetup from the detection of auto-imports to the props option:
\* the option text and the import records the statements are written from.
\* The script body and the template mention no auto-imported name, and the
\* template adds no import.
setupOptions(decl) ==
    LET autoImported == detectAutoImports(
                          IF decl.kind = "runtime" THEN decl.text ELSE <<>>, decl.imports)
        allImports   == addVueImport(decl.imports \o autoImported, "defineComponent", FALSE)
        merged       == withoutMacros(mergeImports(allImports, <<>>))
        built        == buildPropsOption(decl, allImports)
        withComputed == addVueImport(built.imports, "computed", FALSE)
    IN  [option |-> built.option,
         merged |-> IF decl.hasModels
                    THEN withoutMacros(mergeImports(withComputed, <<>>))
                    ELSE merged]

(*************************** the props declarations of a script setup ******)
\* the types members are written with: `string`, `string[]`,
\* `Record<string, any>`, `Box<{ a: string; }>`, `{ a: string; b: number }`,
\* `() => void` and `Function`
MemberTypes ==
    { <<"string">>,
      <<"string", "[", "]">>,
      <<"Record", "<", "string", ",", " ", "any", ">">>,
      <<"Box", "<", "{", " ", "a", ":", " ", "string", ";", " ", "}", ">">>,
      <<"{", " ", "a", ":", " ", "string", ";", " ", "b", ":", " ", "number", " ", "}">>,
      <<"(", ")", " ", "=", ">", " ", "void">>,
      <<"Function">> }

\* the member at place k is named pk
memberName(k) == "p" \o ToString(k)

MemberLists ==
    UNION { { [k \in 1..n |-> PropInfo(memberName(k), ts[k], os[k])] :
                ts \in [1..n -> MemberTypes], os \in [1..n -> BOOLEAN] } :
            n \in 0..MaxMembers }

memberText(m) ==
    <<m.name>> \o (IF m.optional THEN <<"?">> ELSE <<>>) \o <<":", " ">> \o m.type

RECURSIVE joinMembers(_, _)
joinMembers(ms, sep) ==
    IF ms = <<>> THEN <<>>
    ELSE memberText(Head(ms))
         \o (IF Tail(ms) = <<>> THEN <<>> ELSE sep \o joinMembers(Tail(ms), sep))

\* members apart by `; `, by a line feed or by both
Separators == { <<";", " ">>, <<"\n", " ">>, <<";", "\n", " ">> }

\* the type argument of defineProps: `{ p1: T1; p2?: T2 }`, with or without
\* a `;` after the last member
typeText(ms, sep, closed) ==
    <<"{", " ">> \o joinMembers(ms, sep)
    \o (IF closed /\ ms # <<>> THEN <<";">> ELSE <<>>) \o <<" ", "}">>

\* the props argument of a runtime declaration
RuntimeProps ==
    { <<"[", "'a'", "]">>,
      <<"{", " ", "items", ":", " ", "Array", " ", "as", " ", "PropType", "<",
        "string", "[", "]", ">", " ", "}">> }

\* the imports the script is written with: none, `import { ref } from 'vue'`,
\* `import type { Ref } from 'vue'`, `import type { PropType } from 'vue'`
ScriptImports ==
    { <<>>,
      <<ImportInfo("vue", "", <<Named("ref", "ref")>>, FALSE)>>,
      <<ImportInfo("vue", "", <<Named("Ref", "Ref")>>, TRUE)>>,
      <<ImportInfo("vue", "", <<Named("PropType", "PropType")>>, TRUE)>> }

PropsDecl(kind, ms, text, imps, hasModels) ==
    [kind |-> kind, members |-> ms, text |-> text, imports |-> imps,
     hasModels |-> hasModels]

\* a script setup as far as its props go: no defineProps, defineProps with
\* a runtime argument, defineProps with a type argument
PropsDecls ==
    { PropsDecl("none", <<>>, <<>>, imps, hm) : imps \in ScriptImports, hm \in BOOLEAN }
    \cup { PropsDecl("runtime", <<>>, r, imps, hm) :
             r \in RuntimeProps, imps \in ScriptImports, hm \in BOOLEAN }
    \cup { PropsDecl("type", ms, typeText(ms, sep, closed), imps, hm) :
             ms \in MemberLists, sep \in Separators, closed \in BOOLEAN,
             imps \in ScriptImports, hm \in BOOLEAN }

NoDecl == PropsDecl("none", <<>>, <<>>, <<>>, FALSE)

\* parsePropTypes on the type argument, as convert and buildPropsOption call it
ParsePropTypes ==
    /\ tpc = "parse"
    /\ propInfos' = (IF setupDecl.kind = "type" THEN parsePropTypes(setupDecl.text) ELSE <<>>)
    /\ tpc' = "assemble"
    /\ UNCHANGED <<setupDecl, componentProps, mergedImports>>
    /\ UNCHANGED otherThanPropTypes

\* fromScriptSetup: the props option and the imports of the module
FromScriptSetupOptions ==
    /\ tpc = "assemble"
    /\ componentProps' = setupOptions(setupDecl).option
    /\ mergedImports' = setupOptions(setupDecl).merged
    /\ tpc' = "done"
    /\ UNCHANGED <<setupDecl, propInfos>>
    /\ UNCHANGED otherThanPropTypes

(*************************** cli.ts: convertSingleFile, watchFiles *********)
\* One .vue file, its .tsx and its stylesheet beside it.  A content is a
\* version of the file: `plain` converts to a module, `styled` to a module
\* and a stylesheet, `broken` is a source parseSFC reports errors for.
\* Missing stands for a file that does not exist.
Missing == [v |-> 0, kind |-> "missing"]

ContentKinds == {"plain", "styled", "broken"}

Content(v, kind) == [v |-> v, kind |-> kind]

\* the ConvertResult of convert for a content: the early return of a parse
\* with errors has an empty tsx and no css
cliConvert(content) ==
    IF content.kind = "broken"
    THEN [tsx |-> "", css |-> "null", cssFilename |-> "null", warnings |-> 1, from |-> content]
    ELSE [tsx |-> "tsx", css |-> IF content.kind = "styled" THEN "css" ELSE "null",
          cssFilename |-> IF content.kind = "styled" THEN "module.css" ELSE "null",
          warnings |-> 0, from |-> content]

\* what Bun.write leaves in a file: the text and the content it came from
Written(text, content) == [text |-> text, of |-> content]

NoFile == Written("", Missing)

NoRun == [tsx |-> "", css |-> "null", cssFilename |-> "null", warnings |-> 0, from |-> Missing]

\* the calls of convertSingleFile: the one of main and one per change seen
\* by the watcher
Runs == 1..(MaxChanges + 1)

CliOptions == [delete : BOOLEAN, dryRun : BOOLEAN, watch : BOOLEAN]

ZeroStats == [converted |-> 0, deleted |-> 0, cssModules |-> 0, errors |-> 0]

\* `stats.errors++; return false`
failRun(h) ==
    /\ runStats' = [runStats EXCEPT ![h].errors = @ + 1]
    /\ runOk' = [runOk EXCEPT ![h] = "false"]
    /\ runPc' = [runPc EXCEPT ![h] = "done"]

\* `stats.converted++; return true`, after d deletions and c stylesheets
endRun(h, d, c) ==
    /\ runStats' = [runStats EXCEPT ![h].converted = @ + 1, ![h].deleted = @ + d,
                                    ![h].cssModules = @ + c]
    /\ runOk' = [runOk EXCEPT ![h] = "true"]
    /\ runPc' = [runPc EXCEPT ![h] = "done"]

\* `source = await Bun.file(file).text()` and its catch
ReadSource(h) ==
    /\ runPc[h] = "read"
    /\ IF vueFile = Missing
       THEN failRun(h) /\ UNCHANGED runSource
       ELSE /\ runSource' = [runSource EXCEPT ![h] = vueFile]
            /\ runPc' = [runPc EXCEPT ![h] = "convert"]
            /\ UNCHANGED <<runStats, runOk>>
    /\ UNCHANGED <<cliOpts, vueFile, tsxFile, cssFile, runResult, changes>>
    /\ UNCHANGED otherThanCli

\* `const result = await convert(source, ...)` resolved, down to the next
\* await: the dry run ends here, the others go on to Bun.write
ConvertSource(h) ==
    /\ runPc[h] = "convert"
    /\ runResult' = [runResult EXCEPT ![h] = cliConvert(runSource[h])]
    /\ IF cliOpts.dryRun
       THEN endRun(h, 0, 0)
       ELSE /\ runPc' = [runPc EXCEPT ![h] = "writeTsx"]
            /\ UNCHANGED <<runStats, runOk>>
    /\ UNCHANGED <<cliOpts, vueFile, tsxFile, cssFile, runSource, changes>>
    /\ UNCHANGED otherThanCli

\* convert, Bun.write or the import of fs/promises rejected: the catch
RunThrows(h) ==
    /\ runPc[h] \in {"convert", "writeTsx", "writeCss"}
    /\ failRun(h)
    /\ UNCHANGED <<cliOpts, vueFile, tsxFile, cssFile, runSource, runResult, changes>>
    /\ UNCHANGED otherThanCli

\* where the run goes after its last write
afterWrites(h, c) ==
    IF cliOpts.delete
    THEN /\ runPc' = [runPc EXCEPT ![h] = "unlink"]
         /\ runStats' = [runStats EXCEPT ![h].cssModules = @ + c]
         /\ UNCHANGED runOk
    ELSE endRun(h, 0, c)

\* `await Bun.write(tsxPath, result.tsx)`
WriteTsx(h) ==
    /\ runPc[h] = "writeTsx"
    /\ tsxFile' = Written(runResult[h].tsx, runResult[h].from)
    /\ IF runResult[h].cssFilename # "null" /\ runResult[h].css # "null"
       THEN /\ runPc' = [runPc EXCEPT ![h] = "writeCss"]
            /\ UNCHANGED <<runStats, runOk>>
       ELSE afterWrites(h, 0)
    /\ UNCHANGED <<cliOpts, vueFile, cssFile, runSource, runResult, changes>>
    /\ UNCHANGED otherThanCli

\* `await Bun.write(cssPath, result.css); stats.cssModules++`
WriteCss(h) ==
    /\ runPc[h] = "writeCss"
    /\ cssFile' = Written(runResult[h].css, runResult[h].from)
    /\ afterWrites(h, 1)
    /\ UNCHANGED <<cliOpts, vueFile, tsxFile, runSource, runResult, changes>>
    /\ UNCHANGED otherThanCli

\* `await unlink(file); stats.deleted++`; unlink rejects when the file is gone
Unlink(h) ==
    /\ runPc[h] = "unlink"
    /\ IF vueFile = Missing
       THEN failRun(h) /\ UNCHANGED vueFile
       ELSE vueFile' = Missing /\ endRun(h, 1, 0)
    /\ UNCHANGED <<cliOpts, tsxFile, cssFile, runSource, runResult, changes>>
    /\ UNCHANGED otherThanCli

\* main has called watchFiles: its own call of convertSingleFile is over
watching == cliOpts.watch /\ runPc[1] = "done"

\* the file is saved with a new content and the callback of fsWatch starts
\* a call of convertSingleFile, which runs up to its first await
FileChanged ==
    /\ watching
    /\ vueFile # Missing
    /\ changes < MaxChanges
    /\ \E kind \in ContentKinds : vueFile' = Content(vueFile.v + 1, kind)
    /\ changes' = changes + 1
    /\ runPc' = [runPc EXCEPT ![changes + 2] = "read"]
    /\ UNCHANGED <<cliOpts, tsxFile, cssFile, runSource, runResult, runStats, runOk>>
    /\ UNCHANGED otherThanCli

(*************************** specification *********************************)
WalkerIdle ==
    /\ children = <<>>
    /\ i = 1
    /\ parts = <<>>
    /\ index = 0
    /\ result = NoResult
    /\ hasVFor = FALSE
    /\ jsxBody = <<>>
    /\ ret = <<>>
    /\ scriptKind = ""
    /\ moduleLines = <<>>
    /\ pc = "idle"

ScriptIdle ==
    /\ stmts = <<>>
    /\ script = <<>>
    /\ removed = {}
    /\ macros = [k \in 1..Len(MacroNames) |-> Absent]
    /\ imports = <<>>
    /\ rawImports = <<>>
    /\ rawExports = <<>>
    /\ body = <<>>
    /\ tsx = <<>>
    /\ mpc = "idle"

RewriterIdle ==
    /\ expression = <<>>
    /\ refIdentifiers = <<>>
    /\ propIdentifiers = <<>>
    /\ rewritten = <<>>
    /\ previous = <<>>
    /\ rpc = "idle"

ImportsIdle ==
    /\ existing = <<>>
    /\ additional = <<>>
    /\ map = <<>>
    /\ next = 0
    /\ ipc = "idle"

PropsIdle ==
    /\ elems = <<>>
    /\ elemIdx = 1
    /\ propIdx = 1
    /\ attrs = <<>>
    /\ extraAttrs = <<>>
    /\ elementAttrs = <<>>
    /\ fallbacks = <<>>
    /\ dpc = "idle"

ConvertIdle ==
    /\ sources = [c \in Calls |-> Sfc(<<>>, <<>>)]
    /\ options = [c \in Calls |-> [llm |-> FALSE]]
    /\ ctx = [c \in Calls |-> NoContext]
    /\ ran = [c \in Calls |-> <<>>]
    /\ tsxText = [c \in Calls |-> <<>>]
    /\ requests = [c \in Calls |-> <<>>]
    /\ replacements = [c \in Calls |-> <<>>]
    /\ outcome = [c \in Calls |-> NoOutcome]
    /\ returned = [c \in Calls |-> Pending]
    /\ cpc = [c \in Calls |-> "idle"]

GlobalsIdle ==
    /\ templateExprs = <<>>
    /\ exprAt = 1
    /\ jsxExprs = <<>>
    /\ usedContextMembers = {}
    /\ warnings = <<>>
    /\ setupSig = NoSetup
    /\ gpc = "idle"

EventsIdle ==
    /\ eventDir = NoEvent
    /\ eventProp = NoEventProp
    /\ epc = "idle"

PropTypesIdle ==
    /\ setupDecl = NoDecl
    /\ propInfos = <<>>
    /\ componentProps = NoOption
    /\ mergedImports = <<>>
    /\ tpc = "idle"

CliIdle ==
    /\ cliOpts = [delete |-> FALSE, dryRun |-> FALSE, watch |-> FALSE]
    /\ vueFile = Missing
    /\ tsxFile = NoFile
    /\ cssFile = NoFile
    /\ runPc = <<>>
    /\ runSource = <<>>
    /\ runResult = <<>>
    /\ runStats = <<>>
    /\ runOk = <<>>
    /\ changes = 0

\* every part but the named one is at rest
OthersIdle(part) ==
    /\ (part = "walker" \/ WalkerIdle)
    /\ (part = "script" \/ ScriptIdle)
    /\ (part = "rewriter" \/ RewriterIdle)
    /\ (part = "imports" \/ ImportsIdle)
    /\ (part = "props" \/ PropsIdle)
    /\ (part = "convert" \/ ConvertIdle)
    /\ (part = "globals" \/ GlobalsIdle)
    /\ (part = "events" \/ EventsIdle)
    /\ (part = "propTypes" \/ PropTypesIdle)
    /\ (part = "cli" \/ CliIdle)

\* the conversion of a template: templateToJsx, then the render return
Init ==
    /\ children \in SeqsUpTo(NodeKinds, MaxChildren)
    /\ i = 1
    /\ parts = <<>>
    /\ index = 0
    /\ result = NoResult
    /\ hasVFor = FALSE
    /\ jsxBody = <<>>
    /\ ret = <<>>
    /\ scriptKind = ""
    /\ moduleLines = <<>>
    /\ pc = "walk"
    /\ OthersIdle("walker")

Next ==
    \/ WalkText
    \/ WalkInterpolation
    \/ WalkComment
    \/ WalkElement
    \/ TemplateToJsx
    \/ ScriptToDefineComponent
    \/ EnsureValidJsxReturn

Spec == Init /\ [][Next]_vars

\* the conversion of a setup script: extractMacros, then fromScriptSetup
InitScript ==
    /\ stmts \in SeqsUpTo(StmtKinds, MaxStmts)
    /\ script = Flatten(stmts)
    /\ removed = {}
    /\ macros = [k \in 1..Len(MacroNames) |-> Absent]
    /\ imports = <<>>
    /\ rawImports = <<>>
    /\ rawExports = <<>>
    /\ body = <<>>
    /\ tsx = <<>>
    /\ mpc = "imports"
    /\ OthersIdle("script")

NextScript ==
    \/ ExtractImports
    \/ ExtractMacroCalls
    \/ ExtractRawStatements
    \/ FromScriptSetup

SpecScript == InitScript /\ [][NextScript]_vars

\* the rewriting of a template expression: prefixProps, then appendRefValue
InitRewrite ==
    /\ expression \in SeqsUpTo(ExprTokens, MaxExpr) \cup LongExprs
    /\ refIdentifiers \in RefOrders
    /\ propIdentifiers \in PropOrders
    /\ rewritten = expression
    /\ previous = <<>>
    /\ rpc = "props"
    /\ OthersIdle("rewriter")

NextRewrite ==
    \/ PrefixProps
    \/ AppendRefValue
    \/ AppendRefValueAgain

SpecRewrite == InitRewrite /\ [][NextRewrite]_vars

\* the merging of import records: mergeImports
InitImports ==
    /\ existing \in SeqsUpTo(ImportInfos, MaxImports)
    /\ additional \in AdditionalImports
    /\ map = <<>>
    /\ next = 0
    /\ ipc = "merge"
    /\ OthersIdle("imports")

NextImports ==
    \/ MergeImport
    \/ MergeImportsReturn

SpecImports == InitImports /\ [][NextImports]_vars

\* the directives of the elements of a template: processAllProps on each
InitProps ==
    /\ elems \in SeqsUpTo(ElementProps, MaxElems)
    /\ elemIdx = 1
    /\ propIdx = 1
    /\ attrs = <<>>
    /\ extraAttrs = <<>>
    /\ elementAttrs = <<>>
    /\ fallbacks = <<>>
    /\ dpc = "element"
    /\ OthersIdle("props")

NextProps ==
    \/ StartElement
    \/ SkipDirective
    \/ ProcessDirective
    \/ FinishElement
    \/ FinishElements

SpecProps == InitProps /\ [][NextProps]_vars

\* calls of convert, each running to its first await and resuming from it
InitConvert ==
    /\ sources \in [Calls -> SfcSources]
    /\ options \in [Calls -> ConvertOptions]
    /\ ctx = [c \in Calls |-> NoContext]
    /\ ran = [c \in Calls |-> <<>>]
    /\ tsxText = [c \in Calls |-> <<>>]
    /\ requests = [c \in Calls |-> <<>>]
    /\ replacements = [c \in Calls |-> <<>>]
    /\ outcome = [c \in Calls |-> NoOutcome]
    /\ returned = [c \in Calls |-> Pending]
    /\ cpc = [c \in Calls |-> "start"]
    /\ OthersIdle("convert")

NextConvert ==
    \/ \E c \in Calls : Convert(c)
    \/ \E c \in Calls : ImportAi(c)
    \/ \E c \in Calls : ImportProvider(c)
    \/ \E c \in Calls : GenerateText(c)
    \/ \E c \in Calls : ResumeConvert(c)

SpecConvert == InitConvert /\ [][NextConvert]_vars

\* the template globals of a component: rewriteTemplateGlobals on each of
\* the template's expressions, then the setup signature of the assembler
InitGlobals ==
    /\ templateExprs \in SeqsUpTo(GlobalExprs, MaxTemplateExprs)
    /\ exprAt = 1
    /\ jsxExprs = <<>>
    /\ usedContextMembers = {}
    /\ warnings = <<>>
    /\ setupSig = NoSetup
    /\ gpc = "walk"
    /\ OthersIdle("globals")

NextGlobals ==
    \/ RewriteTemplateGlobals
    \/ SetupSignature

SpecGlobals == InitGlobals /\ [][NextGlobals]_vars

\* an event directive of the template: processEvent
InitEvents ==
    /\ eventDir \in EventDirectives
    /\ eventProp = NoEventProp
    /\ epc = "event"
    /\ OthersIdle("events")

NextEvents ==
    \/ ProcessEvent

SpecEvents == InitEvents /\ [][NextEvents]_vars

\* the props declaration of a script setup: parsePropTypes and the props option
InitPropTypes ==
    /\ setupDecl \in PropsDecls
    /\ propInfos = <<>>
    /\ componentProps = NoOption
    /\ mergedImports = <<>>
    /\ tpc = "parse"
    /\ OthersIdle("propTypes")

NextPropTypes ==
    \/ ParsePropTypes
    \/ FromScriptSetupOptions

SpecPropTypes == InitPropTypes /\ [][NextPropTypes]_vars

\* the command line on one file: convertSingleFile from main and from the watcher
InitCli ==
    /\ cliOpts \in CliOptions
    /\ vueFile \in {Missing} \cup {Content(1, kind) : kind \in ContentKinds}
    /\ tsxFile = NoFile
    /\ cssFile = NoFile
    /\ runPc = [h \in Runs |-> IF h = 1 THEN "read" ELSE "idle"]
    /\ runSource = [h \in Runs |-> Missing]
    /\ runResult = [h \in Runs |-> NoRun]
    /\ runStats = [h \in Runs |-> ZeroStats]
    /\ runOk = [h \in Runs |-> "none"]
    /\ changes = 0
    /\ OthersIdle("cli")

NextCli ==
    \/ \E h \in Runs : ReadSource(h)
    \/ \E h \in Runs : ConvertSource(h)
    \/ \E h \in Runs : RunThrows(h)
    \/ \E h \in Runs : WriteTsx(h)
    \/ \E h \in Runs : WriteCss(h)
    \/ \E h \in Runs : Unlink(h)
    \/ FileChanged

SpecCli == InitCli /\ [][NextCli]_vars

\* templateToJsx alone, its loop run to the end: walkChildren is a
\* synchronous loop, so a step that can be taken is taken
NextWalk ==
    \/ WalkText
    \/ WalkInterpolation
    \/ WalkComment
    \/ WalkElement
    \/ TemplateToJsx

SpecWalk == Init /\ [][NextWalk]_vars /\ WF_vars(NextWalk)

(*************************** claims: template walker ***********************)
RECURSIVE Ascending(_)
\* the members of a finite set of numbers, in increasing order
Ascending(S) ==
    IF S = {} THEN <<>>
    ELSE LET m == CHOOSE x \in S : \A y \in S : x <= y
         IN  <<m>> \o Ascending(S \ {m})

IsElseIf(node) == node.type = ELEMENT /\ "else-if" \in node.dirs
IsElse(node) == node.type = ELEMENT /\ "else" \in node.dirs /\ "else-if" \notin node.dirs
IsBlank(node) == node.type = TEXT /\ node.content \in {" ", "\n"}

\* sibling n starts a conditional chain: the walker hands it to processConditionalChain
ChainAt(cs, n) ==
    /\ n \in 1..Len(cs)
    /\ cs[n].type = ELEMENT /\ cs[n].tag # "slot"
    /\ "if" \in cs[n].dirs /\ "for" \notin cs[n].dirs

\* sibling m is a branch of the chain seeded at n: the v-if itself, or a
\* v-else-if / v-else reached from n over blank text and v-else-if siblings only
BranchOf(cs, n, m) ==
    /\ m \in n..Len(cs)
    /\ m > n => (IsElseIf(cs[m]) \/ IsElse(cs[m]))
    /\ \A k \in (n + 1)..(m - 1) : IsBlank(cs[k]) \/ IsElseIf(cs[k])

Branches(cs, n) == { m \in n..Len(cs) : BranchOf(cs, n, m) }
ConditionBranches(cs, n) == { m \in Branches(cs, n) : ~IsElse(cs[m]) \/ m = n }
ElseBranches(cs, n) == Branches(cs, n) \ ConditionBranches(cs, n)

RECURSIVE TernaryPairs(_)
TernaryPairs(ms) ==
    IF ms = <<>> THEN <<>>
    ELSE <<Tok("cond", Head(ms)), L("?"), Tok("el", Head(ms)), L(":")>>
         \o TernaryPairs(Tail(ms))

ExpectedTernary(cs, n) ==
    <<L("{")>> \o TernaryPairs(Ascending(ConditionBranches(cs, n)))
    \o (IF ElseBranches(cs, n) = {} THEN <<L("null")>>
        ELSE <<Tok("el", CHOOSE e \in ElseBranches(cs, n) : TRUE)>>)
    \o <<L("}")>>

\* C1: the ternary generated for a conditional chain has exactly one
\* `condition ? branch :` pair per condition-bearing branch, in source order,
\* followed by the v-else branch alone when there is one and by `null` otherwise.
C1_TernaryPerBranch ==
    (index > 0 /\ ChainAt(children, index))
        => /\ Cardinality(ElseBranches(children, index)) <= 1
           /\ result.jsx = ExpectedTernary(children, index)

\* a chain of three branches ending in a v-else has been converted
C1_Witness ==
    /\ index > 0 /\ ChainAt(children, index)
    /\ Cardinality(ConditionBranches(children, index)) = 2
    /\ Cardinality(ElseBranches(children, index)) = 1
    /\ Len(result.jsx) = 11

BlanksBetweenBranches(cs, n) ==
    { k \in 1..Len(cs) : /\ IsBlank(cs[k])
                         /\ \E a, b \in Branches(cs, n) : a < k /\ k < b }

\* C2: the consumed count of a chain is the number of recorded branches plus
\* the number of whitespace-only text siblings lying between two recorded
\* branches; nothing after the last recorded branch is counted.
C2_ConsumedCount ==
    (index > 0 /\ ChainAt(children, index))
        => result.consumed = Cardinality(Branches(children, index))
                             + Cardinality(BlanksBetweenBranches(children, index))

\* the top-level units the walker produced: every part but inline whitespace
Units(ps) == Cardinality({ k \in 1..Len(ps) : ps[k] # <<L(" ")>> })

IsFragment(jsx) == Len(jsx) >= 2 /\ jsx[1] = L("<>") /\ jsx[Len(jsx)] = L("</>")

\* C3: templateToJsx wraps its result in `<>...</>` exactly when the walker
\* produced more than one top-level unit (a conditional chain being one
\* unit); one unit is returned unwrapped and no content yields `<></>`.
C3_FragmentIffSeveralUnits ==
    pc \in {"assemble", "done"}
        => /\ Units(parts) = 0 => jsxBody = <<L("<>"), L("</>")>>
           /\ Units(parts) = 1 => jsxBody = Trim(Concat(parts))
           /\ Units(parts) > 1 => jsxBody = <<L("<>")>> \o Trim(Concat(parts)) \o <<L("</>")>>

IsSingleElement(jsx) == Len(jsx) = 1 /\ jsx[1][1] = "el"

\* C4: the expression returned by the generated render function is exactly
\* one JSX element or fragment, never bare text, a bare `{...}` container or
\* several adjacent units.
C4_SingleJsxRoot ==
    pc = "done" => (IsSingleElement(ret) \/ IsFragment(ret))

HasToken(jsx, t) == \E k \in 1..Len(jsx) : jsx[k] = t

\* the condition of sibling n sits inside the iteration callback body, as
\* `cond ? <el> : null`
ConditionInsideCallback(jsx, n) ==
    \E k \in 1..Len(jsx) :
        /\ jsx[k] = L("=>(")
        /\ k + 6 = Len(jsx)
        /\ SubSeq(jsx, k + 1, k + 5)
             = <<Tok("cond", n), L("?"), Tok("el", n), L(":"), L("null")>>

\* C5: element dispatch follows the precedence slot outlet, then iteration
\* (a v-if on the same element goes inside the iteration callback, never
\* around the iteration), then conditional chain, then plain element.
C5_DispatchPrecedence ==
    index > 0 =>
        LET node == children[index]
            jsx == result.jsx
        IN  IF node.tag = "slot"
               THEN HasToken(jsx, Tok("slot", index)) /\ ~HasToken(jsx, Tok("cond", index))
                    /\ result.consumed = 1
            ELSE IF "for" \in node.dirs
               THEN /\ jsx[1] = L("{_renderList(") /\ jsx[Len(jsx)] = L("))}")
                    /\ result.consumed = 1
                    /\ IF "if" \in node.dirs
                          THEN ConditionInsideCallback(jsx, index)
                          ELSE ~HasToken(jsx, Tok("cond", index))
            ELSE IF "if" \in node.dirs
               THEN jsx[1] = L("{") /\ jsx[2] = Tok("cond", index)
            ELSE jsx = <<Tok("el", index)>> /\ result.consumed = 1

\* an element carrying both v-for and v-if has been dispatched
C5_Witness ==
    /\ index > 0
    /\ children[index].dirs = {"for", "if"}
    /\ children[index].tag # "slot"
    /\ hasVFor
    /\ Len(result.jsx) = 10

(*************************** claims: setup script ***************************)
\* the statements of ss of the given kind, in order
RECURSIVE OfKind(_, _)
OfKind(ss, kind) ==
    IF ss = <<>> THEN <<>>
    ELSE (IF Head(ss).kind = kind THEN <<Head(ss)>> ELSE <<>>) \o OfKind(Tail(ss), kind)

\* the text of each export statement as written, without its line break
ExportTexts ==
    LET es == OfKind(stmts, "export") IN [k \in 1..Len(es) |-> trimWs(es[k].toks)]

PositionsOf(text, tok) == { k \in 1..Len(text) : text[k] = tok }

First(S) == CHOOSE k \in S : \A j \in S : k <= j

\* C6: every export statement of the setup script stands in the output after
\* the closing `})` of the component definition, and nothing of an export
\* statement is left in the setup body.
C6_ExportsHoisted ==
    mpc = "done" =>
        LET close == First(PositionsOf(tsx, "})"))
        IN  /\ SubSeq(tsx, close + 1, Len(tsx)) = JoinWith(ExportTexts, <<"\n">>)
            /\ rawExports = ExportTexts
            /\ \A k \in 1..Len(body) : body[k] \notin {"export", "|"}

HasArrow(t) == \E k \in 1..(Len(t) - 1) : t[k] = "=" /\ t[k + 1] = ">"

MacroIndex(name) == CHOOSE k \in 1..Len(MacroNames) : MacroNames[k] = name

\* C7: a macro call whose type argument holds a function type is matched up
\* to the `>` that closes its `<`: the macro is found and its type argument
\* is the whole region as written.
C7_ArrowTypeArgument ==
    mpc = "done" =>
        \A k \in 1..Len(stmts) :
            ( /\ stmts[k].kind = "macro"
              /\ HasArrow(stmts[k].typeArg)
              /\ \A j \in 1..Len(stmts) : j # k => stmts[j].name # stmts[k].name )
            => /\ macros[MacroIndex(stmts[k].name)].present
               /\ macros[MacroIndex(stmts[k].name)].type = stmts[k].typeArg

\* where statement k starts in the script
StartOf(k) == Len(Flatten(SubSeq(stmts, 1, k - 1))) + 1

Closer(open) == IF open = "<" THEN ">" ELSE ")"

\* how many brackets opened at position p are still open after position e
DepthAfter(p, e) ==
    1 + Cardinality({ j \in (p + 1)..e : script[j] = script[p] })
      - Cardinality({ j \in (p + 1)..e : script[j] = Closer(script[p]) })

\* where the first bracket of statement j stands
BracketOf(j) == IF stmts[j].toks[1] = "const=" THEN StartOf(j) + 2 ELSE StartOf(j) + 1

\* statement k begins inside the first bracket of an earlier macro call, one
\* that closes only after k has begun
Enclosed(k) ==
    \E j \in 1..(k - 1) :
        /\ stmts[j].kind \in {"macro", "unclosed"}
        /\ \E e \in StartOf(k)..Len(script) :
              /\ DepthAfter(BracketOf(j), e) = 0
              /\ \A d \in (BracketOf(j) + 1)..(e - 1) : DepthAfter(BracketOf(j), d) > 0

\* statement k is a macro call whose first bracket is never closed before the
\* script ends, and it is not text inside the brackets of another macro call
RunsOut(k) ==
    /\ stmts[k].kind = "unclosed"
    /\ LET p == StartOf(k) + 1
       IN  \A e \in (p + 1)..Len(script) : DepthAfter(p, e) > 0
    /\ ~Enclosed(k)

\* the script without statement k, its line break left in place
StmtsWithout(k) ==
    SubSeq(stmts, 1, k - 1) \o <<Stmt("plain", "", <<"\n">>, <<>>, <<>>)>>
    \o SubSeq(stmts, k + 1, Len(stmts))

\* the name stands somewhere in the text of the statement
Mentions(stmt, name) == \E t \in 1..Len(stmt.toks) : stmt.toks[t] = name

KeyOccurrences(text, name) ==
    { p \in 1..Len(text) :
        /\ text[p] = name
        /\ \E q \in (p + 1)..Len(text) :
              /\ text[q] = ":"
              /\ \A k \in (p + 1)..(q - 1) : text[k] = " "
        /\ Cardinality({ k \in 1..(p - 1) : text[k] = "{" })
             > Cardinality({ k \in 1..(p - 1) : text[k] = "}" }) }

PrefixedKeys(text, name) ==
    { p \in KeyOccurrences(text, name) : p > 2 /\ text[p - 1] = "." /\ text[p - 2] = "props" }

ObjectLiteral == <<"{", " ", "x", ":", " ", "x", ",", " ", "y", " ", "}">>

ObjectLiteralRewritten ==
    <<"{", " ", "x", ":", " ", "x", ".", "value", ",", " ", "props", ".", "y", " ", "}">>

Names(order) == { order[k] : k \in 1..Len(order) }

DoubleValue(text, name) ==
    \E p \in 1..Len(text) :
        /\ text[p] = name
        /\ (p = 1 \/ (text[p - 1] # "." /\ text[p - 1] \notin WordTokens))
        /\ p + 4 <= Len(text)
        /\ SubSeq(text, p + 1, p + 4) = <<".", "value", ".", "value">>
        /\ (p + 4 = Len(text) \/ text[p + 5] \notin WordTokens)

\* C10: appendRefValue applied to its own output returns it unchanged, and
\* puts no `name.value.value` where there was none.
C10_AppendRefValueIdempotent ==
    rpc = "done" =>
        /\ rewritten = previous
        /\ \A name \in Names(refIdentifiers) :
              ~DoubleValue(expression, name) => ~DoubleValue(rewritten, name)

C10_Witness ==
    /\ rpc = "done"
    /\ refIdentifiers = <<"x", "value">>
    /\ expression = <<"x", " ", "+", " ", "x", ".", "value">>
    /\ previous = <<"x", ".", "value", " ", "+", " ", "x", ".", "value">>
    /\ rewritten = previous

(*************************** claims: imports *******************************)
Supplied == existing \o additional

Contributors(source) == { k \in 1..Len(Supplied) : Supplied[k].source = source }

ImportedNames(named) == { named[k].imported : k \in 1..Len(named) }

\* C11: the merged list has one record per distinct source; the names it
\* imports are those of all records supplied for the source, each once; it
\* is type-only exactly when all of them are.
C11_MergeImports ==
    ipc = "done" =>
        /\ \A a, b \in 1..Len(map) : map[a].source = map[b].source => a = b
        /\ { map[k].source : k \in 1..Len(map) }
             = { Supplied[k].source : k \in 1..Len(Supplied) }
        /\ \A k \in 1..Len(map) :
              LET from == Contributors(map[k].source)
                  named == map[k].namedImports
              IN  /\ ImportedNames(named)
                       = UNION { ImportedNames(Supplied[j].namedImports) : j \in from }
                  /\ \A a, b \in 1..Len(named) :
                        named[a].imported = named[b].imported => a = b
                  /\ map[k].typeOnly <=> \A j \in from : Supplied[j].typeOnly

(*************************** claims: directives ****************************)
\* the directive names the converter recognises
Recognised ==
    {"bind", "on", "if", "else-if", "else", "for", "slot", "show", "model", "html",
     "text", "pre", "cloak"}

RECURSIVE UnrecognisedFrom(_, _)
\* the unrecognised directives of the elements from the e-th on, in document
\* order, each with the element it stands on
UnrecognisedFrom(es, e) ==
    IF e > Len(es) THEN <<>>
    ELSE LET names == es[e]
             own == [k \in 1..Len(names) |-> <<names[k], e>>]
         IN  SelectSeq(own, LAMBDA d : d[1] \notin Recognised) \o UnrecognisedFrom(es, e + 1)

DeterministicText(source) ==
    moduleText(scriptToDefineComponent("none", [hasVFor |-> FALSE]),
               renderFullElement(source.template))

\* C12: when the parse of the source reports an error, convert resolves with
\* empty tsx, null css, no fallback items and the parse messages as its
\* warnings, and has run nothing but the parse: no style or macro extraction,
\* no template walk, no module assembly, no remote request.
C12_ParseErrorShortCircuit ==
    \A c \in Calls :
        (Len(sources[c].errors) > 0 /\ cpc[c] # "start") =>
            /\ cpc[c] = "done"
            /\ returned[c].status = "resolved"
            /\ returned[c].tsx = <<>>
            /\ returned[c].css = "null"
            /\ returned[c].fallbacks = <<>>
            /\ returned[c].warnings =
                   [k \in 1..Len(sources[c].errors) |-> [message |-> sources[c].errors[k]]]
            /\ ran[c] = <<"parseSFC">>
            /\ requests[c] = <<>>

C12_Witness ==
    \E c \in Calls :
        /\ Len(sources[c].errors) = 1
        /\ options[c].llm
        /\ cpc[c] = "done"
        /\ Len(returned[c].warnings) = 1

\* C13: with remote resolution enabled and a fallback item recorded, no
\* failure of the remote step rejects convert: whatever the step met short
\* of a reply, convert resolves with the deterministic module text.
C13_RemoteFailureCaught ==
    \A c \in Calls :
        (options[c].llm /\ cpc[c] = "done" /\ outcome[c].kind \notin {"", "reply"}) =>
            /\ returned[c].status = "resolved"
            /\ returned[c].tsx = DeterministicText(sources[c])

\* C14: a call of convert calls the resolver at most once, after the module
\* text is assembled, and sends at most one request, which lists every
\* fallback item of the component; with remote resolution off or no fallback
\* item it calls the resolver not at all.
C14_ResolverOnceAfterAssembly ==
    \A c \in Calls :
        /\ Len(requests[c]) <= 1
        /\ Cardinality({k \in 1..Len(ran[c]) : ran[c][k] = "resolveFallbacks"}) <= 1
        /\ \A k \in 1..Len(ran[c]) :
               ran[c][k] = "resolveFallbacks" =>
                   /\ k = Len(ran[c])
                   /\ k > 1
                   /\ ran[c][k - 1] = "scriptToDefineComponent"
                   /\ tsxText[c] # <<>>
        /\ requests[c] # <<>> =>
               /\ requests[c][1].items = ctx[c].fallbacks
               /\ \E k \in 1..Len(ran[c]) : ran[c][k] = "resolveFallbacks"
        /\ (~options[c].llm \/ ctx[c].fallbacks = <<>>) =>
               /\ requests[c] = <<>>
               /\ \A k \in 1..Len(ran[c]) : ran[c][k] # "resolveFallbacks"

C14_Witness ==
    \E c \in Calls :
        /\ cpc[c] = "done"
        /\ Len(requests[c]) = 1
        /\ Len(requests[c][1].items) >= 2
        /\ returned[c].status = "resolved"

\* C15: every fallback item of a conversion has its placeholder, the comment
\* `TODO: vue-to-tsx - <reason>` followed by the comment `Original: <snippet>`,
\* in the output, unless the resolver gave a replacement for its snippet, and
\* then the replacement stands in the output in the placeholder's stead.
C15_PlaceholderPerFallback ==
    \A c \in Calls :
        returned[c].status = "resolved" =>
            \A k \in 1..Len(returned[c].fallbacks) :
                LET item == returned[c].fallbacks[k]
                    comment == generateFallbackComment(item)
                    given == {e \in 1..Len(replacements[c]) :
                                 replacements[c][e][1] = item.source}
                IN  IF given = {}
                    THEN findText(returned[c].tsx, comment, 1) # 0
                    ELSE /\ findText(returned[c].tsx, comment, 1) = 0
                         /\ \A e \in given :
                                findText(returned[c].tsx, replacements[c][e][2], 1) # 0

HelperCount(lines) ==
    Cardinality({k \in 1..Len(lines) : lines[k] = RENDER_LIST_HELPER})

\* an element of the template carries v-for
CarriesVFor ==
    \E k \in 1..Len(children) :
        children[k].type = ELEMENT /\ findDirective(children[k], "for")

\* C18: the module text declares the _renderList helper exactly once when an
\* element of the template carries v-for and not at all when none does,
\* whichever kind of script the component has.
C18_RenderListHelperOnce ==
    pc \in {"render", "done", "returned"} =>
        HelperCount(moduleLines) = (IF CarriesVFor THEN 1 ELSE 0)

(*************************** claims: template globals ***********************)
\* a name as the output is to hold it: the rewritable globals lose their `$`
Rewritten(atom) ==
    IF \E g \in 1..Len(TEMPLATE_GLOBALS) : TEMPLATE_GLOBALS[g].global = atom
       THEN Tail(atom) ELSE atom

\* the expressions of the template in which a name occurs
ExprsWith(atom) ==
    {k \in 1..Len(templateExprs) :
        \E a \in 1..Len(templateExprs[k]) : templateExprs[k][a] = atom}

\* the names the setup signature binds
BoundNames(sig) ==
    (IF sig.propsParam = "" THEN {} ELSE {sig.propsParam})
        \cup {sig.ctxParts[k] : k \in 1..Len(sig.ctxParts)}

\* C19: every use of $attrs, $slots, $emit or $props in a template expression
\* is rewritten to attrs, slots, emit or props, and the setup function of the
\* module binds that name: in its context destructuring for attrs, slots and
\* emit, as its first parameter for props.
C19_GlobalsRewrittenAndBound ==
    gpc = "done" =>
        \A g \in 1..Len(TEMPLATE_GLOBALS) :
            \A k \in ExprsWith(TEMPLATE_GLOBALS[g].global) :
                /\ jsxExprs[k] =
                       exprText([a \in 1..Len(templateExprs[k]) |->
                                    Rewritten(templateExprs[k][a])])
                /\ TEMPLATE_GLOBALS[g].contextMember \in BoundNames(setupSig)

\* C20: each of $t, $route, $router, $i18n, $refs that occurs in a template
\* expression has exactly one warning naming it, however often and in
\* whatever order the names occur, and stays as it is in the output.
C20_OneDiagnosticPerName ==
    gpc = "done" =>
        \A g \in 1..Len(WARN_GLOBALS) :
            ExprsWith(WARN_GLOBALS[g]) # {} =>
                /\ Cardinality({w \in 1..Len(warnings) :
                                   warnings[w].message = warnMessage(WARN_GLOBALS[g])}) = 1
                /\ \A k \in ExprsWith(WARN_GLOBALS[g]) :
                       jsxExprs[k] =
                           exprText([a \in 1..Len(templateExprs[k]) |->
                                        Rewritten(templateExprs[k][a])])

(*************************** claims: events *********************************)
\* the modifiers of a directive that are not capture, once or passive, in
\* source order
RECURSIVE OtherModifiers(_)
OtherModifiers(ms) ==
    IF ms = <<>> THEN <<>>
    ELSE IF Head(ms) \in {"capture", "once", "passive"} THEN OtherModifiers(Tail(ms))
    ELSE << Head(ms) >> \o OtherModifiers(Tail(ms))

\* the places of a text where a token stands
Places(text, token) == {k \in 1..Len(text) : text[k] = token}

\* the text between `, [` and `])` of a value that has one withModifiers call
PassedModifiers(value) ==
    LET open == CHOOSE k \in Places(value, ", [") : TRUE
    IN  {value[k] : k \in (open + 1)..(Len(value) - 1)} \ {"'", ", "}

\* C21: capture, once and passive are never among the modifiers passed to
\* withModifiers; the other modifiers of the directive are all passed, in
\* source order, in one withModifiers call; and withModifiers is used only
\* when the directive has such a modifier.
C21_RuntimeModifiersPassed ==
    epc = "done" =>
        LET others == OtherModifiers(eventDir.modifiers)
            value == eventProp.value
        IN  IF others = <<>> THEN Places(value, "withModifiers(") = {}
            ELSE /\ Cardinality(Places(value, "withModifiers(")) = 1
                 /\ value[1] = "withModifiers("
                 /\ Cardinality(Places(value, ", [")) = 1
                 /\ value[Len(value)] = "])"
                 /\ LET open == CHOOSE k \in Places(value, ", [") : TRUE
                    IN  SubSeq(value, open + 1, Len(value) - 1) =
                            JoinWith([k \in 1..Len(others) |-> <<"'", others[k], "'">>],
                                     <<", ">>)
                 /\ PassedModifiers(value) \cap {"capture", "once", "passive"} = {}

\* the handler as the prop value is to hold it
ExpectedHandler(dir) ==
    IF dir.kind = "none" THEN <<"() => {}">>
    ELSE IF dir.kind \in {"identifier", "member", "function", "arrow"} THEN dir.exp
    ELSE <<"() => ">> \o dir.exp

\* the handler part of a prop value: the value itself, or the first argument
\* of its withModifiers call
HandlerPart(value) ==
    IF value # <<>> /\ value[1] = "withModifiers(" /\ Places(value, ", [") # {}
       THEN SubSeq(value, 2, (CHOOSE k \in Places(value, ", [") : TRUE) - 1)
       ELSE value

\* C22: the handler is emitted as it is when it is an identifier, a
\* member-access chain or a function or arrow expression, and inside one
\* zero-argument arrow when it is any other expression; an arrow handler is
\* not wrapped in a second arrow, with modifiers or without; a directive
\* without expression gives `() => {}`.
C22_HandlerWrapping ==
    epc = "done" => HandlerPart(eventProp.value) = ExpectedHandler(eventDir)

RECURSIVE CamelCase(_)
\* a kebab-case name camel-cased: a hyphen goes and the letter after it is
\* capitalised
CamelCase(name) ==
    IF name = <<>> THEN <<>>
    ELSE IF Head(name) = "-" /\ Len(name) > 1 /\ name[2] \in LowerCase
        THEN << toUpperCase(name[2]) >> \o CamelCase(Tail(Tail(name)))
    ELSE << Head(name) >> \o CamelCase(Tail(name))

\* C23: the prop name is `on`, then the camel-cased event name with its first
\* letter capitalised, the part from a colon on kept as it is, then `Capture`
\* exactly when the capture modifier is present.
C23_EventPropName ==
    epc = "done" =>
        LET name == eventDir.arg
            colons == Places(name, ":")
            colonIdx == IF colons = {} THEN Len(name) + 1
                        ELSE CHOOSE k \in colons : \A j \in colons : k <= j
            camel == CamelCase(SubSeq(name, 1, colonIdx - 1))
        IN  eventProp.name =
                <<"on", toUpperCase(camel[1])>> \o Tail(camel)
                    \o SubSeq(name, colonIdx, Len(name))
                    \o (IF Places(eventDir.modifiers, "capture") # {}
                        THEN <<"Capture">> ELSE <<>>)

(*************************** claims: props declarations *******************)
\* C24: parsePropTypes returns one {name, type, optional} record for every
\* top-level member of the type, in source order: a separator nested in
\* braces, parentheses or angle brackets does not split a member, and the
\* members after a member of function type are still separate members.
C24_OnePropPerMember ==
    (tpc \in {"assemble", "done"} /\ setupDecl.kind = "type")
        => propInfos = setupDecl.members

\* `PropType<` in the text of the props option
MentionsPropType(option) ==
    \E k \in 1..(Len(option) - 1) : option[k] = "PropType" /\ option[k + 1] = "<"

\* an import record of 'vue' names PropType
ImportsPropType(records) ==
    \E k \in 1..Len(records) :
        /\ records[k].source = "vue"
        /\ \E j \in 1..Len(records[k].namedImports) :
             records[k].namedImports[j].imported = "PropType"

\* C25: whenever the props option of the generated component mentions
\* PropType<...>, the imports of the output name PropType from 'vue'.
C25_PropTypeImported ==
    (tpc = "done" /\ MentionsPropType(componentProps)) => ImportsPropType(mergedImports)

(*************************** claims: command line *************************)
\* the run of main has removed a .vue file it had read
DeletedByMain == vueFile = Missing /\ runSource[1] # Missing

\* C26: with --delete the original .vue file is removed only after its
\* conversion has succeeded and the .tsx (and the stylesheet, when there is
\* one) has been written; after a failure (read error, parse errors, an
\* exception, a failed write) or under --dry-run the original is still there.
C26_DeleteOnlyAfterSuccess ==
    ~cliOpts.watch =>
        /\ DeletedByMain =>
             /\ cliOpts.delete /\ ~cliOpts.dryRun
             /\ runSource[1].kind # "broken"
             /\ tsxFile = Written("tsx", runSource[1])
             /\ runSource[1].kind = "styled" => cssFile = Written("css", runSource[1])
        /\ ( /\ runPc[1] = "done"
             /\ runSource[1] # Missing
             /\ (runOk[1] = "false" \/ cliOpts.dryRun \/ runSource[1].kind = "broken") )
           => vueFile # Missing

\* every call of convertSingleFile is over or was never started
Quiet == \A h \in Runs : runPc[h] \in {"idle", "done"}

\* C30: in watch mode, once the saves have stopped and every reconversion
\* has finished without failure, the .tsx on disk is the conversion of the
\* content the .vue file has now.
C30_WatchWritesLatest ==
    ( /\ cliOpts.watch /\ ~cliOpts.delete /\ ~cliOpts.dryRun
      /\ changes > 0
      /\ Quiet
      /\ \A h \in Runs : runOk[h] # "false" )
    => tsxFile = Written(cliConvert(vueFile).tsx, vueFile)

(*************************** claims: ternaries *****************************)
\* the places where name stands bare as the middle operand of a ternary:
\* after `? ` and in front of a `:`
BareMiddles(text, name) ==
    { p \in 3..Len(text) :
        /\ text[p] = name
        /\ text[p - 1] = " "
        /\ text[p - 2] = "?"
        /\ \E q \in (p + 1)..Len(text) :
              /\ text[q] = ":"
              /\ \A k \in (p + 1)..(q - 1) : text[k] = " " }

\* C27: a reactive name that is the middle operand of a ternary, and so is
\* followed by `:`, still gets `.value`, also when the ternary stands inside
\* an object literal: no such name is left bare by appendRefValue.
C27_TernaryMiddleGetsValue ==
    rpc = "rewritten" =>
        \A name \in Names(refIdentifiers) \ Names(propIdentifiers) :
            BareMiddles(rewritten, name) = {}

(*************************** claims: the cursor of walkChildren ************)
\* how often sibling n is rendered in the parts pushed so far
RenderCount(n) ==
    Cardinality({ k \in 1..Len(Concat(parts)) :
        Concat(parts)[k] \in {Tok("text", n), Tok("expression", n), Tok("comment", n),
                              Tok("el", n), Tok("slot", n)} })

\* every sibling in front of the cursor is rendered once, the blank text
\* nodes aside, which render as a blank or as nothing; no sibling at or
\* after the cursor is rendered yet
CursorCovers ==
    \A n \in 1..Len(children) :
        IF n >= i THEN RenderCount(n) = 0
        ELSE isWhitespaceText(children[n]) \/ RenderCount(n) = 1

\* C28: walkChildren terminates on every sibling list; each step moves the
\* cursor forward by at least one sibling and never past the end of the
\* list, and every sibling passed is rendered exactly once, directly or as
\* a branch of the one conditional chain that took it in: none is skipped
\* and none is rendered twice.
C28_WalkTerminatesAndCovers ==
    /\ [](i <= Len(children) + 1 /\ CursorCovers)
    /\ [][pc = "walk" => (i' > i \/ pc' # "walk")]_vars
    /\ <>(pc # "walk")

C28_Witness ==
    /\ pc = "assemble"
    /\ Len(children) = MaxChildren
    /\ i = Len(children) + 1
    /\ index = 1
    /\ result.consumed = MaxChildren

(*************************** claims: the residual body ********************)
\* a text without its blanks and line breaks
Solid(text) == SelectSeq(text, LAMBDA t : ~IsWs(t))

RECURSIVE FoundInOrder(_, _, _)
\* every text of the list stands in `text` as written, each after the one
\* before it, from position p on
FoundInOrder(text, list, p) ==
    IF list = <<>> THEN TRUE
    ELSE LET q == findText(text, Head(list), p)
         IN  q # 0 /\ FoundInOrder(text, Tail(list), q + Len(Head(list)))

\* the statements of the script that are neither macro calls nor imports
\* nor exports
OtherStatements ==
    LET plain == OfKind(stmts, "plain") IN [k \in 1..Len(plain) |-> Solid(plain[k].toks)]

\* C29: extractMacros removes only the macro, import and export statements
\* it reports: every other statement of the script, also one that shares its
\* line with a macro call and one whose identifiers merely contain a macro
\* name, stands unchanged and in the original order in the residual body.
C29_OtherStatementsKept ==
    mpc \in {"assemble", "done"} => FoundInOrder(Solid(body), OtherStatements, 1)

====
